---- MODULE Spec2Model ----
(***************************************************************************)
(* Model of the weekly_intel processing core: fingerprinting, cosine       *)
(* similarity, story clustering, novelty checking and the pipeline that    *)
(* sequences them over the persistent store.                               *)
(*                                                                         *)
(* Texts are sequences of one-character strings.  Embeddings are integer   *)
(* vectors whose Euclidean norm is an integer dividing NormBase, so every  *)
(* cosine similarity is an exact multiple of 1/Scale; a similarity s is    *)
(* the integer s * Scale.  Time is counted in days; day 0 is a Monday and  *)
(* the first of January.                                                   *)
(***************************************************************************)
EXTENDS Integers, Sequences, FiniteSets, TLC

\* Optional values: None is the empty tuple, a present value x is <<x>>
None == << >>

Some(x) == <<x>>

Max2(a, b) == IF a >= b THEN a ELSE b

SetMax(S) == CHOOSE x \in S : \A y \in S : y <= x

SetMin(S) == CHOOSE x \in S : \A y \in S : x <= y

Range(s) == {s[i] : i \in 1..Len(s)}

(***************************************************************************)
(* Fingerprinter (processing/fingerprint.py)                               *)
(***************************************************************************)
NUM_PERMUTATIONS == 128

\* DEFAULT_THRESHOLD = 0.8 and fingerprint_threshold = 0.8, as a fraction
FingerprintThresholdNum == 8
FingerprintThresholdDen == 10

\* datasketch's prime modulus and 32-bit hash mask, scaled to TLC integers
MersennePrime == 8191
MaxHash == 4095

LowerChar(c) ==
    CASE c = "A" -> "a"
      [] c = "B" -> "b"
      [] c = "C" -> "c"
      [] OTHER -> c

WordChars == {"a", "b", "c", "d", "e", "f", "g", "h", "i", "j", "k", "_"}

SpaceChars == {" ", "\n"}

\* text.lower() followed by re.sub(r"[^\w\s]", " ", text)
NormalizeChar(c) ==
    LET l == LowerChar(c)
    IN IF l \in WordChars \/ l \in SpaceChars THEN l ELSE " "

\* text.split(): maximal runs of non-space characters, in order
RECURSIVE SplitFrom(_, _, _)
SplitFrom(chars, i, cur) ==
    IF i > Len(chars)
    THEN IF cur = << >> THEN << >> ELSE <<cur>>
    ELSE IF chars[i] \in SpaceChars
         THEN IF cur = << >>
              THEN SplitFrom(chars, i + 1, << >>)
              ELSE <<cur>> \o SplitFrom(chars, i + 1, << >>)
         ELSE SplitFrom(chars, i + 1, Append(cur, chars[i]))

Words(text) ==
    SplitFrom([i \in 1..Len(text) |-> NormalizeChar(text[i])], 1, << >>)

\* " ".join(words[i : i + 3])
Shingle(words, i) ==
    words[i] \o <<" ">> \o words[i + 1] \o <<" ">> \o words[i + 2]

\* tokenize: 3-word shingles, or the words themselves when fewer than 3
tokenize(text) ==
    IF text = << >> THEN << >>
    ELSE LET words == Words(text)
         IN IF Len(words) < 3 THEN words
            ELSE [i \in 1..(Len(words) - 2) |-> Shingle(words, i)]

CharCode(c) ==
    CASE c = "a" -> 1 [] c = "b" -> 2 [] c = "c" -> 3 [] c = "d" -> 4
      [] c = "e" -> 5 [] c = "f" -> 6 [] c = "g" -> 7 [] c = "h" -> 8
      [] c = "i" -> 9 [] c = "j" -> 10 [] c = "k" -> 11 [] c = "_" -> 12
      [] OTHER -> 13

\* the 32-bit digest of a token's bytes (sha1 in datasketch)
RECURSIVE TokenHashFrom(_, _, _)
TokenHashFrom(token, i, acc) ==
    IF i > Len(token) THEN acc
    ELSE TokenHashFrom(token, i + 1,
                       (acc * 31 + CharCode(token[i]) + 7) % (MaxHash + 1))

TokenHash(token) == TokenHashFrom(token, 1, 5)

\* the k-th member (a, b) of the fixed permutation family
PermA(k) == 1 + ((k * 1237 + 411) % (MersennePrime - 1))

PermB(k) == (k * 4099 + 17) % MersennePrime

\* ((a * hv + b) % prime) & max_hash
Permute(k, hv) == ((PermA(k) * hv + PermB(k)) % MersennePrime) % (MaxHash + 1)

\* MinHash(num_perm).update(token) for each token: position-wise minimum,
\* starting from max_hash
compute_minhash(text) ==
    LET hs == {TokenHash(t) : t \in Range(tokenize(text))}
    IN [k \in 1..NUM_PERMUTATIONS |->
           IF hs = {} THEN MaxHash
           ELSE SetMin({Permute(k, h) : h \in hs} \cup {MaxHash})]

\* a MinHash object that takes over the hash values of the previous object
NewMinHashShared(previous) ==
    IF previous = None THEN [k \in 1..NUM_PERMUTATIONS |-> MaxHash]
    ELSE previous[1]

\* MinHash(num_perm=NUM_PERMUTATIONS): a new object, every position at
\* max_hash, whatever object was built before
NewMinHash(previous) == [k \in 1..NUM_PERMUTATIONS |-> MaxHash]

\* mh.update(token) for each token of the text, on the object's hash values
MinHashUpdate(hashvalues, text) ==
    LET hs == {TokenHash(t) : t \in Range(tokenize(text))}
    IN [k \in 1..NUM_PERMUTATIONS |->
           SetMin({Permute(k, h) : h \in hs} \cup {hashvalues[k]})]

\* MinHash.jaccard: number of equal positions (out of NUM_PERMUTATIONS)
jaccard(mh1, mh2) ==
    Cardinality({k \in 1..NUM_PERMUTATIONS : mh1[k] = mh2[k]})

\* A stored fingerprint: None (never set), "" (the empty string), or the JSON
\* document {"version", "num_perm", "hashvalues"}
NoFingerprint == [kind |-> "None"]

EmptyFingerprint == [kind |-> "empty"]

\* compute_fingerprint: "" for empty text, else the tagged signature
compute_fingerprint(text) ==
    IF text = << >> THEN EmptyFingerprint
    ELSE [kind |-> "json", version |-> 1, num_perm |-> NUM_PERMUTATIONS,
          hashvalues |-> compute_minhash(text)]

\* Other strings the column can hold: text that is not JSON (kind "text"), a
\* JSON object without the "num_perm" or "hashvalues" key (kind "partial", with
\* the value of data.get("version")), and JSON that is not an object (kind
\* "array")
\* truthiness of a fingerprint value: None and "" are falsy
FingerprintSet(fp) == fp.kind \notin {"None", "empty"}

\* load_fingerprint raises: data.get on JSON that is not an object
\* (AttributeError), or hashvalues that cannot be broadcast to num_perm
\* positions (ValueError); neither is caught at line 94
LoadRaises(fp) ==
    \/ fp.kind = "array"
    \/ /\ fp.kind = "json"
       /\ fp.version = 1
       /\ Len(fp.hashvalues) \notin {1, fp.num_perm}

\* load_fingerprint: None for a falsy or wrongly versioned fingerprint and for
\* one whose parsing raises JSONDecodeError or KeyError
load_fingerprint(fp) ==
    IF ~FingerprintSet(fp) THEN None
    ELSE IF fp.kind = "text" THEN None
    ELSE IF fp.version /= 1 THEN None
    ELSE IF fp.kind = "partial" THEN None
    ELSE Some(IF Len(fp.hashvalues) = 1
              THEN [k \in 1..fp.num_perm |-> fp.hashvalues[1]]
              ELSE fp.hashvalues)

\* MinHash.jaccard raises ValueError for different numbers of permutations
JaccardRaises(mh1, mh2) == Len(mh1) /= Len(mh2)

\* None when either signature cannot be loaded, else the Jaccard estimate
compute_similarity_from_fingerprints(fp1, fp2) ==
    LET mh1 == load_fingerprint(fp1)
        mh2 == load_fingerprint(fp2)
    IN IF mh1 = None \/ mh2 = None THEN None
       ELSE Some(jaccard(mh1[1], mh2[1]))

\* Optional[bool]: similarity >= threshold, None when there is no similarity
are_fingerprints_similar(fp1, fp2) ==
    LET similarity == compute_similarity_from_fingerprints(fp1, fp2)
    IN IF similarity = None THEN None
       ELSE Some(similarity[1] * FingerprintThresholdDen
                     >= FingerprintThresholdNum * NUM_PERMUTATIONS)

\* truthiness of an Optional[bool]
Truthy(ob) == ob = Some(TRUE)

\* a threshold t stands for t / ThresholdDen; a similarity s for s / 128
ThresholdDen == 10

MeetsThreshold(similarity, threshold) ==
    similarity * ThresholdDen >= threshold * NUM_PERMUTATIONS

\* are_fingerprints_similar(fp1, fp2, threshold) with what it raises:
\* [raised, value], value being the Optional[bool] returned
FingerprintsSimilarCall(fp1, fp2, threshold) ==
    IF LoadRaises(fp1) \/ LoadRaises(fp2)
    THEN [raised |-> TRUE, value |-> None]
    ELSE LET mh1 == load_fingerprint(fp1)
             mh2 == load_fingerprint(fp2)
         IN IF mh1 = None \/ mh2 = None
            THEN [raised |-> FALSE, value |-> None]
            ELSE IF JaccardRaises(mh1[1], mh2[1])
            THEN [raised |-> TRUE, value |-> None]
            ELSE [raised |-> FALSE,
                  value |-> Some(MeetsThreshold(jaccard(mh1[1], mh2[1]),
                                                threshold))]

\* compute_similarity(text1, text2): the Jaccard estimate of the two MinHashes
compute_similarity(text1, text2) ==
    jaccard(compute_minhash(text1), compute_minhash(text2))

\* are_near_duplicates(text1, text2, threshold): similarity >= threshold
are_near_duplicates(text1, text2, threshold) ==
    MeetsThreshold(compute_similarity(text1, text2), threshold)

\* find_duplicates(texts, threshold) of fingerprint.py, the loop over j and i:
\* every pair (i, j, similarity), i < j counted from 0, that meets the
\* threshold
RECURSIVE PairsFrom(_, _, _, _)
PairsFrom(minhashes, threshold, i, j) ==
    IF i > Len(minhashes) THEN << >>
    ELSE IF j > Len(minhashes)
    THEN PairsFrom(minhashes, threshold, i + 1, i + 2)
    ELSE LET similarity == jaccard(minhashes[i], minhashes[j])
         IN (IF MeetsThreshold(similarity, threshold)
             THEN <<<<i - 1, j - 1, similarity>>>> ELSE << >>)
                \o PairsFrom(minhashes, threshold, i, j + 1)

find_duplicate_pairs(texts, threshold) ==
    LET minhashes == [i \in 1..Len(texts) |-> compute_minhash(texts[i])]
    IN PairsFrom(minhashes, threshold, 1, 2)

(***************************************************************************)
(* Similarity engine (processing/embeddings.py)                            *)
(***************************************************************************)
\* every embedding norm divides NormBase; a similarity s is s * Scale
NormBase == 65
Scale == 16900

ZeroVec == <<0, 0>>

\* sample embeddings: norms 0, 1, 5 and 13
Vectors == {ZeroVec, <<1, 0>>, <<4, 3>>, <<3, 4>>, <<12, 5>>, <<-1, 0>>}

Dot(a, b) == a[1] * b[1] + a[2] * b[2]

\* np.linalg.norm
Norm(v) == CHOOSE n \in 0..NormBase : n * n = Dot(v, v)

\* cosine_similarity giving 1.0 for any two equal vectors
cosine_similarity_of_equals(a, b) ==
    LET norm_a == Norm(a)
        norm_b == Norm(b)
    IN IF a = b THEN Scale
       ELSE IF norm_a = 0 \/ norm_b = 0 THEN 0
       ELSE (Dot(a, b) * Scale) \div (norm_a * norm_b)

\* cosine_similarity: 0.0 when either norm is 0, else dot / (norm_a * norm_b)
cosine_similarity(a, b) ==
    LET norm_a == Norm(a)
        norm_b == Norm(b)
    IN IF norm_a = 0 \/ norm_b = 0 THEN 0
       ELSE (Dot(a, b) * Scale) \div (norm_a * norm_b)

\* v / norm with a zero norm replaced by 1, in units of 1 / NormBase
Normalized(v) ==
    LET n == IF Norm(v) = 0 THEN 1 ELSE Norm(v)
    IN <<(v[1] * NormBase) \div n, (v[2] * NormBase) \div n>>

\* np.dot of two normalised vectors, in units of 1 / Scale
NormalizedDot(na, nb) == Dot(na, nb) * (Scale \div (NormBase * NormBase))

\* cosine_similarity_matrix: normalise every row, then all dot products
cosine_similarity_matrix(embeddings) ==
    LET normalized == [i \in DOMAIN embeddings |-> Normalized(embeddings[i])]
    IN [i \in DOMAIN embeddings |->
           [j \in DOMAIN embeddings |->
               NormalizedDot(normalized[i], normalized[j])]]

(***************************************************************************)
(* Configuration defaults (config.py, ProcessingConfig), in units of       *)
(* 1 / Scale                                                               *)
(***************************************************************************)
\* semantic_threshold = 0.85
SemanticThreshold == 14365

\* the follow-up bar 0.7
FollowupBar == 11830

\* novelty_weeks = 4
NoveltyWeeks == 4

(***************************************************************************)
(* Cluster builder (processing/clustering.py).  Embeddings, labels and     *)
(* index lists are indexed from 0 as in the source.                        *)
(***************************************************************************)
NumItems(embeddings) == Cardinality(DOMAIN embeddings)

\* the forward scan comparing each item with the seed only
RECURSIVE ScanForwardSeedOnly(_, _, _, _, _, _)
ScanForwardSeedOnly(sim_matrix, labels, cluster_indices, j, n, current_label) ==
    IF j >= n THEN [labels |-> labels, cluster_indices |-> cluster_indices]
    ELSE IF labels[j] = -1
            /\ sim_matrix[j][cluster_indices[1]] >= SemanticThreshold
    THEN ScanForwardSeedOnly(sim_matrix,
                             [labels EXCEPT ![j] = current_label],
                             Append(cluster_indices, j), j + 1, n,
                             current_label)
    ELSE ScanForwardSeedOnly(sim_matrix, labels, cluster_indices, j + 1, n,
                             current_label)

\* the forward scan over j in range(i + 1, n) of one open cluster
RECURSIVE ScanForward(_, _, _, _, _, _)
ScanForward(sim_matrix, labels, cluster_indices, j, n, current_label) ==
    IF j >= n THEN [labels |-> labels, cluster_indices |-> cluster_indices]
    ELSE IF labels[j] /= -1
    THEN ScanForward(sim_matrix, labels, cluster_indices, j + 1, n,
                     current_label)
    ELSE LET max_sim == SetMax({sim_matrix[j][cluster_indices[k]] :
                                   k \in 1..Len(cluster_indices)})
         IN IF max_sim >= SemanticThreshold
            THEN ScanForward(sim_matrix,
                             [labels EXCEPT ![j] = current_label],
                             Append(cluster_indices, j), j + 1, n,
                             current_label)
            ELSE ScanForward(sim_matrix, labels, cluster_indices, j + 1, n,
                             current_label)

\* the loop over i in range(n)
RECURSIVE ThresholdLoop(_, _, _, _, _)
ThresholdLoop(sim_matrix, labels, i, n, current_label) ==
    IF i >= n THEN labels
    ELSE IF labels[i] /= -1
    THEN ThresholdLoop(sim_matrix, labels, i + 1, n, current_label)
    ELSE LET scan == ScanForward(sim_matrix,
                                 [labels EXCEPT ![i] = current_label],
                                 <<i>>, i + 1, n, current_label)
         IN IF Len(scan.cluster_indices) = 1
            THEN ThresholdLoop(sim_matrix,
                               [scan.labels EXCEPT ![i] = -1],
                               i + 1, n, current_label)
            ELSE ThresholdLoop(sim_matrix, scan.labels, i + 1, n,
                               current_label + 1)

\* _threshold_clustering: labels, -1 for noise
threshold_clustering(embeddings) ==
    LET n == NumItems(embeddings)
    IN ThresholdLoop(cosine_similarity_matrix(embeddings),
                     [i \in 0..(n - 1) |-> -1], 0, n, 0)

\* np.where(labels == cluster_id)[0].tolist(): ascending indices
RECURSIVE WhereFrom(_, _, _, _)
WhereFrom(labels, value, i, n) ==
    IF i >= n THEN << >>
    ELSE IF labels[i] = value
    THEN <<i>> \o WhereFrom(labels, value, i + 1, n)
    ELSE WhereFrom(labels, value, i + 1, n)

\* the indices whose label is at least the value, not equal to it
WhereAtLeast(labels, value) ==
    LET RECURSIVE Go(_)
        Go(i) == IF i >= Cardinality(DOMAIN labels) THEN << >>
                 ELSE IF labels[i] >= value THEN <<i>> \o Go(i + 1)
                 ELSE Go(i + 1)
    IN Go(0)

Where(labels, value) == WhereFrom(labels, value, 0, Cardinality(DOMAIN labels))

\* sum of the member embeddings; the centroid is this sum / len(indices)
VecSum(embeddings, indices) ==
    LET RECURSIVE Go(_)
        Go(k) == IF k > Len(indices) THEN ZeroVec
                 ELSE LET r == Go(k + 1)
                          v == embeddings[indices[k]]
                      IN <<v[1] + r[1], v[2] + r[2]>>
    IN Go(1)

\* squared distance of member v to the centroid, times len(indices)^2
CentroidDist2(v, total, m) ==
    LET d == <<m * v[1] - total[1], m * v[2] - total[2]>>
    IN Dot(d, d)

\* indices[np.argmin(distances)]: the first member at minimal distance
Representative(embeddings, indices) ==
    LET total == VecSum(embeddings, indices)
        m == Len(indices)
        dist(k) == CentroidDist2(embeddings[indices[k]], total, m)
        best == SetMin({k \in 1..m : \A l \in 1..m : dist(k) <= dist(l)})
    IN indices[best]

\* the Cluster built for one label
BuildCluster(embeddings, labels, cluster_id) ==
    LET indices == Where(labels, cluster_id)
    IN [id |-> cluster_id,
        item_indices |-> indices,
        centroid |-> [total |-> VecSum(embeddings, indices),
                      count |-> Len(indices)],
        representative_idx |-> Representative(embeddings, indices)]

\* for cluster_id in sorted(unique_labels): one Cluster per label
RECURSIVE BuildClusters(_, _, _)
BuildClusters(embeddings, labels, unique_labels) ==
    IF unique_labels = {} THEN << >>
    ELSE LET cluster_id == SetMin(unique_labels)
         IN <<BuildCluster(embeddings, labels, cluster_id)>>
                \o BuildClusters(embeddings, labels,
                                 unique_labels \ {cluster_id})

\* The label vectors HDBSCAN can return for n points: -1 for noise, cluster
\* labels 0..k-1, every cluster of at least min_cluster_size points
HdbscanLabelings(n, min_cluster_size) ==
    {l \in [0..(n - 1) -> -1..((n \div min_cluster_size) - 1)] :
        \A c \in 0..((n \div min_cluster_size) - 1) :
            LET size == Cardinality({i \in 0..(n - 1) : l[i] = c})
            IN /\ size = 0 \/ size >= min_cluster_size
               /\ size > 0 => \A b \in 0..(c - 1) : \E i \in 0..(n - 1) : l[i] = b}

\* cluster_items(embeddings, min_cluster_size).  hdbscan_labels is the label
\* vector fit_predict returns, or None when importing hdbscan fails.
cluster_items(embeddings, min_cluster_size, hdbscan_labels) ==
    LET n == NumItems(embeddings)
    IN IF n < min_cluster_size
       THEN [clusters |-> << >>,
             labels |-> [i \in 0..(n - 1) |-> -1],
             noise_indices |-> [k \in 1..n |-> k - 1]]
       ELSE LET labels == IF hdbscan_labels = None
                          THEN threshold_clustering(embeddings)
                          ELSE hdbscan_labels[1]
                unique_labels == {labels[i] : i \in 0..(n - 1)} \ {-1}
            IN [clusters |-> BuildClusters(embeddings, labels, unique_labels),
                labels |-> labels,
                noise_indices |-> Where(labels, -1)]

\* merge_threshold = 0.9, as a fraction of ThresholdDen
MergeThreshold == 9

\* sim_matrix[i, j] >= merge_threshold for the centroids of two clusters.  The
\* cosine of two means is the cosine of the two sums; a zero centroid has
\* similarity 0.0 with everything.  The comparison is made on squares because
\* the norm of a sum need not be an integer.
CentroidsMeet(a, b, threshold) ==
    LET dot == Dot(a.total, b.total)
        na2 == Dot(a.total, a.total)
        nb2 == Dot(b.total, b.total)
    IN IF na2 = 0 \/ nb2 = 0 THEN threshold <= 0
       ELSE \/ threshold <= 0 /\ dot >= 0
            \/ /\ dot >= 0
               /\ dot * dot * ThresholdDen * ThresholdDen
                      >= threshold * threshold * na2 * nb2

\* the scan over j that leaves the absorbed clusters free for later ones
RECURSIVE MergeScanKeepingFree(_, _, _, _, _, _)
MergeScanKeepingFree(clusters, threshold, i, j, merged_indices, merged) ==
    IF j > Len(clusters)
    THEN [merged_indices |-> merged_indices, merged |-> merged]
    ELSE IF j \notin merged
            /\ CentroidsMeet(clusters[i].centroid, clusters[j].centroid,
                             threshold)
    THEN MergeScanKeepingFree(clusters, threshold, i, j + 1,
                              Append(merged_indices, j), merged)
    ELSE MergeScanKeepingFree(clusters, threshold, i, j + 1, merged_indices,
                              merged)

\* merge_clusters, "for j in range(i + 1, len(clusters))": cluster i takes
\* every cluster j not merged yet whose centroid is similar to its own
RECURSIVE MergeScan(_, _, _, _, _, _)
MergeScan(clusters, threshold, i, j, merged_indices, merged) ==
    IF j > Len(clusters)
    THEN [merged_indices |-> merged_indices, merged |-> merged]
    ELSE IF j \notin merged
            /\ CentroidsMeet(clusters[i].centroid, clusters[j].centroid,
                             threshold)
    THEN MergeScan(clusters, threshold, i, j + 1, Append(merged_indices, j),
                   merged \cup {j})
    ELSE MergeScan(clusters, threshold, i, j + 1, merged_indices, merged)

\* all_item_indices: the members of the merged clusters, cluster after cluster
RECURSIVE AllItemIndices(_, _)
AllItemIndices(clusters, merged_indices) ==
    IF merged_indices = << >> THEN << >>
    ELSE clusters[Head(merged_indices)].item_indices
             \o AllItemIndices(clusters, Tail(merged_indices))

\* merge_clusters, "for i in range(len(clusters))"
RECURSIVE MergeLoop(_, _, _, _, _, _)
MergeLoop(clusters, embeddings, threshold, i, merged, result) ==
    IF i > Len(clusters) THEN result
    ELSE IF i \in merged
    THEN MergeLoop(clusters, embeddings, threshold, i + 1, merged, result)
    ELSE LET scan == MergeScan(clusters, threshold, i, i + 1, <<i>>,
                               merged \cup {i})
             all_item_indices == AllItemIndices(clusters, scan.merged_indices)
             cluster ==
                 [id |-> Len(result),
                  item_indices |-> all_item_indices,
                  centroid |-> [total |-> VecSum(embeddings, all_item_indices),
                                count |-> Len(all_item_indices)],
                  representative_idx |->
                      Representative(embeddings, all_item_indices)]
         IN MergeLoop(clusters, embeddings, threshold, i + 1, scan.merged,
                      Append(result, cluster))

\* merge_clusters(clusters, embeddings, merge_threshold)
merge_clusters(clusters, embeddings, merge_threshold) ==
    IF Len(clusters) <= 1 THEN clusters
    ELSE MergeLoop(clusters, embeddings, merge_threshold, 1, {}, << >>)

(***************************************************************************)
(* Embedding storage (EmbeddingModel.embedding_to_bytes/bytes_to_embedding)*)
(* Each component is stored as 4 little-endian bytes.                      *)
(***************************************************************************)
BytesOfNat(m) ==
    <<m % 256, (m \div 256) % 256, (m \div 65536) % 256, m \div 16777216>>

\* two's complement for negative components
ComponentToBytes(c) ==
    IF c >= 0 THEN BytesOfNat(c)
    ELSE LET b == BytesOfNat(-c - 1)
         IN <<255 - b[1], 255 - b[2], 255 - b[3], 255 - b[4]>>

NatOfBytes(b) == b[1] + 256 * b[2] + 65536 * b[3] + 16777216 * b[4]

ComponentFromBytes(b) ==
    IF b[4] < 128 THEN NatOfBytes(b)
    ELSE -NatOfBytes(<<255 - b[1], 255 - b[2], 255 - b[3], 255 - b[4]>>) - 1

\* embedding.astype(np.float32).tobytes()
embedding_to_bytes(embedding) ==
    ComponentToBytes(embedding[1]) \o ComponentToBytes(embedding[2])

\* np.frombuffer(data, dtype=np.float32)
bytes_to_embedding(data) ==
    [k \in 1..(Len(data) \div 4) |->
        ComponentFromBytes(SubSeq(data, 4 * k - 3, 4 * k))]

(***************************************************************************)
(* Calendar: strftime("%Y-%W") of a day number.  Day 0 is Monday, the      *)
(* first of January of year 0; years have 365 days.                        *)
(***************************************************************************)
DaysPerYear == 365

\* %W: week of the year, weeks start on Monday, days before the first
\* Monday are week 0
WeekNumber(day) ==
    LET yday == day % DaysPerYear
        wday == day % 7
    IN <<day \div DaysPerYear, (yday + 7 - wday) \div 7>>

(***************************************************************************)
(* Novelty checker (processing/novelty.py)                                 *)
(***************************************************************************)
\* "x or default" for an optional number: None and 0 are falsy
OrDefault(x, default) == IF x = None \/ x = Some(0) THEN default ELSE x[1]

\* the rows of a table in primary-key order
RECURSIVE RowsById(_)
RowsById(rows) ==
    IF rows = {} THEN << >>
    ELSE LET first == CHOOSE r \in rows : \A q \in rows : r.id <= q.id
         IN <<first>> \o RowsById(rows \ {first})

\* similar_items.sort(key=similarity, reverse=True): stable, descending
RECURSIVE InsertBySimilarity(_, _)
InsertBySimilarity(sorted, item) ==
    IF sorted = << >> THEN <<item>>
    ELSE IF sorted[Len(sorted)].similarity >= item.similarity
    THEN Append(sorted, item)
    ELSE Append(InsertBySimilarity(SubSeq(sorted, 1, Len(sorted) - 1), item),
                sorted[Len(sorted)])

RECURSIVE SortBySimilarity(_)
SortBySimilarity(items) ==
    IF items = << >> THEN << >>
    ELSE InsertBySimilarity(SortBySimilarity(SubSeq(items, 1, Len(items) - 1)),
                            items[Len(items)])

\* similar_items without the cut
Top5Uncut(items) == items

\* similar_items[:5]
Top5(items) == SubSeq(items, 1, IF Len(items) < 5 THEN Len(items) ELSE 5)

\* the follow-up loop over the (truncated) similar_items
IsFollowup(similar_items, utcnow) ==
    LET current_week == WeekNumber(utcnow)
        last_week == WeekNumber(utcnow - 7)
    IN \E k \in 1..Len(similar_items) :
           /\ similar_items[k].week_number \in {current_week, last_week}
           /\ similar_items[k].similarity >= FollowupBar

\* max_similarity without its initial value 0.0
AccumulateNoFloor(historical, sims, threshold) ==
    [similar_items |->
         SelectSeq([k \in 1..Len(historical) |->
                       [id |-> historical[k].id,
                        similarity |-> sims[k],
                        week_number |-> WeekNumber(historical[k].processed_at)]],
                   LAMBDA e : e.similarity >= threshold),
     max_similarity |-> SetMax({sims[k] : k \in 1..Len(historical)})]

\* the similar_items entries and max_similarity accumulated over the history;
\* sims[k] is the similarity computed for historical[k]
Accumulate(historical, sims, threshold) ==
    LET hits == SelectSeq([k \in 1..Len(historical) |->
                              [id |-> historical[k].id,
                               similarity |-> sims[k],
                               week_number |->
                                   WeekNumber(historical[k].processed_at)]],
                          LAMBDA e : e.similarity >= threshold)
    IN [similar_items |-> hits,
        max_similarity |-> SetMax({sims[k] : k \in 1..Len(historical)} \cup {0})]

NovelResult ==
    [is_novel |-> TRUE, novelty_score |-> Scale, similar_items |-> << >>,
     is_followup |-> FALSE]

\* check_novelty(processed_item_id, embedding, weeks_back, threshold) against
\* the ProcessedItem rows `store` at time `utcnow`
check_novelty(store, utcnow, processed_item_id, embedding, weeks_back_arg, threshold_arg) ==
    LET weeks_back == OrDefault(weeks_back_arg, NoveltyWeeks)
        threshold == OrDefault(threshold_arg, SemanticThreshold)
        cutoff_date == utcnow - 7 * weeks_back
        historical == RowsById({p \in store :
                                   /\ p.id /= processed_item_id
                                   /\ p.processed_at >= cutoff_date
                                   /\ p.embedding /= None})
    IN IF historical = << >> THEN NovelResult
       ELSE LET sims == [k \in 1..Len(historical) |->
                            cosine_similarity(
                                embedding,
                                bytes_to_embedding(historical[k].embedding[1]))]
                acc == Accumulate(historical, sims, threshold)
                similar_items == Top5(SortBySimilarity(acc.similar_items))
            IN [is_novel |-> acc.max_similarity < threshold,
                novelty_score |-> Scale - acc.max_similarity,
                similar_items |-> similar_items,
                is_followup |-> IF similar_items /= << >>
                                THEN IsFollowup(similar_items, utcnow)
                                ELSE FALSE]

\* the history query with no filter on the id
BatchHistoricalUnfiltered(store, item_ids, cutoff_date) ==
    RowsById({p \in store : /\ p.processed_at >= cutoff_date
                            /\ p.embedding /= None})

\* the history query of batch_check_novelty (lines 167-175), in id order
BatchHistorical(store, item_ids, cutoff_date) ==
    RowsById({p \in store : /\ p.id \notin item_ids
                            /\ p.processed_at >= cutoff_date
                            /\ p.embedding /= None})

\* batch_check_novelty(items, weeks_back, threshold): a dict from item id to
\* result; items is a sequence of <<processed_item_id, embedding>>
batch_check_novelty(store, utcnow, items, weeks_back_arg, threshold_arg) ==
    LET weeks_back == OrDefault(weeks_back_arg, NoveltyWeeks)
        threshold == OrDefault(threshold_arg, SemanticThreshold)
        cutoff_date == utcnow - 7 * weeks_back
        item_ids == {items[k][1] : k \in 1..Len(items)}
        historical == BatchHistorical(store, item_ids, cutoff_date)
        historical_normalized ==
            [k \in 1..Len(historical) |->
                Normalized(bytes_to_embedding(historical[k].embedding[1]))]
        \* the last entry of items with this id decides results[item_id]
        last(item_id) == SetMax({k \in 1..Len(items) : items[k][1] = item_id})
        one(embedding) ==
            LET normalized == Normalized(embedding)
                sims == [k \in 1..Len(historical) |->
                            NormalizedDot(historical_normalized[k], normalized)]
                acc == Accumulate(historical, sims, threshold)
                similar_items == Top5(SortBySimilarity(acc.similar_items))
            IN [is_novel |-> acc.max_similarity < threshold,
                novelty_score |-> Scale - acc.max_similarity,
                similar_items |-> similar_items,
                is_followup |-> IsFollowup(similar_items, utcnow)]
    IN [item_id \in item_ids |->
           IF historical = << >> THEN NovelResult
           ELSE one(items[last(item_id)][2])]

(***************************************************************************)
(* Pipeline orchestrator (processing/pipeline.py) over the store           *)
(* (database/models.py)                                                    *)
(***************************************************************************)
\* bound of the model: the number of ContentItem rows
MaxItems == 3

\* the day the pipeline model's clock shows (a Monday)
StartDay == 357

\* sample raw texts: TextA ~ TextB ~ TextC are near-duplicates pairwise except
\* TextA and TextC; TextU is unrelated; TextE is empty
TextA == <<"k", " ", "a", " ", "b", " ", "c", " ", "d", " ", "e", " ", "f", " ", "g", " ", "h">>

TextB == <<"a", " ", "b", " ", "c", " ", "d", " ", "e", " ", "f", " ", "g", " ", "h">>

TextC == <<"a", " ", "b", " ", "c", " ", "d", " ", "e", " ", "f", " ", "g", " ", "h", " ", "i">>

TextU == <<"i", " ", "j", " ", "k">>

TextE == << >>

\* three more texts, unrelated to each other and to the others
TextV == <<"b", " ", "a", " ", "d">>

TextW == <<"f", " ", "e", " ", "d">>

TextX == <<"h", " ", "a", " ", "g">>

\* what a fetcher can deliver: content_text and published_at (a day or None)
ItemA == [content_text |-> TextA, published_at |-> Some(2)]

ItemB == [content_text |-> TextB, published_at |-> Some(1)]

ItemC == [content_text |-> TextC, published_at |-> None]

ItemU == [content_text |-> TextU, published_at |-> Some(2)]

SampleItems == {ItemA, ItemB, ItemU}

\* the fingerprint of every sample text
FingerprintTable ==
    [text \in {TextA, TextB, TextC, TextU, TextV, TextW, TextX} |->
        compute_fingerprint(text)]

\* a new ContentItem row
NewContentItem(id, item) ==
    [id |-> id, content_text |-> item.content_text,
     published_at |-> item.published_at, fingerprint |-> NoFingerprint]

Rows(items) == [i \in 1..Len(items) |-> NewContentItem(i, items[i])]

\* the raw items the store holds at the start: none; two near-duplicates and
\* an unrelated item; a chain of near-duplicates
InitialStores ==
    {<< >>, Rows(<<ItemA, ItemB, ItemU>>), Rows(<<ItemC, ItemB, ItemA>>)}

\* what the extraction service can return as a summary, and the embedding the
\* embedding service computes for each summary
Summaries == {"s1", "s2"}

Encode(summary) == IF summary = "s1" THEN <<1, 0>> ELSE <<3, 4>>

\* outcome of the extraction call and of the embedding call for one item
Raised == "raised"

ExtractOutcomes == Summaries \cup {Raised}

EncodeOutcomes == {"ok", Raised}

\* datetime.max, the sort key of an item without published_at
DatetimeMax == 1000000

FollowupMarker == "[Follow-up story]"

EmptyResult ==
    [items_processed |-> 0, items_skipped |-> 0, items_failed |-> 0,
     duplicates_found |-> 0, clusters_created |-> 0, errors |-> << >>]

VARIABLES
    content_items,      \* ContentItem rows, in id order (id = position)
    processed_items,    \* ProcessedItem rows
    story_clusters,     \* StoryCluster rows
    cluster_members,    \* ClusterMember rows
    now,                \* datetime.utcnow(), in days
    hdbscan_installed,  \* whether "import hdbscan" succeeds
    api_key_set,        \* whether the extraction API key is configured
    pc,                 \* position of the running process_new_items
    unprocessed,        \* the batch: ids of the items the query returned
    duplicates,         \* the duplicate groups of the batch
    skip_ids,
    items_to_process,
    next_item,          \* index into items_to_process of the loop
    processed_run,      \* processed_items of the run: <<ProcessedItem id, embedding>>
    result,             \* the ProcessingResult of the run
    novelty_results,    \* what batch_check_novelty returned to the run
    error,              \* the exception that ended the run, if any
    run_kind,           \* "process" or "reprocess": how the run was started
    run_quiet,          \* history: no raw item was added between the previous
                        \* run and this one
    history,            \* history: [ran, failed, ingested] of the previous run
    cl_input,           \* clustering harness: the call's arguments
    cl_result,          \* clustering harness: the ClusteringResult
    nv_input,           \* novelty harness: the calls' arguments
    nv_result,          \* novelty harness: the results of both variants
    fp_input,           \* fingerprinter harness: the call's arguments
    fp_result,          \* fingerprinter harness: what the call returned
    fp_object,          \* fingerprinter harness: the last MinHash object built
    cs_input,           \* similarity harness: the call's arguments
    cs_result           \* similarity harness: what the call returned

vars == <<content_items, processed_items, story_clusters, cluster_members,
          now, hdbscan_installed, api_key_set, pc, unprocessed, duplicates,
          skip_ids, items_to_process, next_item, processed_run, result,
          novelty_results, error, run_kind, run_quiet, history, cl_input,
          cl_result, nv_input, nv_result, fp_input, fp_result, fp_object,
          cs_input, cs_result>>

storeVars == <<content_items, processed_items, story_clusters,
               cluster_members>>

runVars == <<pc, unprocessed, duplicates, skip_ids, items_to_process,
             next_item, processed_run, result, novelty_results, error,
             run_kind, run_quiet>>

configVars == <<hdbscan_installed, api_key_set>>

clVars == <<cl_input, cl_result>>

nvVars == <<nv_input, nv_result>>

fpVars == <<fp_input, fp_result, fp_object>>

csVars == <<cs_input, cs_result>>

harnessVars == <<clVars, nvVars, fpVars, csVars>>

\* next value of an integer primary key: max(rowid) + 1
NextId(rows) == IF rows = {} THEN 1 ELSE SetMax({r.id : r \in rows}) + 1

\* the query without its filter: every ContentItem is returned
UnprocessedQueryAll(items, processed) == [i \in 1..Len(items) |-> i]

\* the query ContentItem outer join ProcessedItem where ProcessedItem.id is
\* NULL, in id order
UnprocessedQuery(items, processed) ==
    SelectSeq([i \in 1..Len(items) |-> i],
              LAMBDA i : \A p \in processed : p.content_item_id /= i)

\* step 1 without the test for a fingerprint that is already set
WithFingerprintsAlways(items, batch) ==
    [i \in 1..Len(items) |->
        IF i \in Range(batch) /\ items[i].content_text /= << >>
        THEN [items[i] EXCEPT
                 !.fingerprint = FingerprintTable[items[i].content_text]]
        ELSE items[i]]

\* step 1: fingerprint every batch item that has text and no fingerprint yet
WithFingerprints(items, batch) ==
    [i \in 1..Len(items) |->
        IF /\ i \in Range(batch)
           /\ items[i].content_text /= << >>
           /\ ~FingerprintSet(items[i].fingerprint)
        THEN [items[i] EXCEPT
                 !.fingerprint = FingerprintTable[items[i].content_text]]
        ELSE items[i]]

\* _find_duplicates, inner loop: for j, item2 in enumerate(items)
RECURSIVE DupInner(_, _, _, _, _, _)
DupInner(items, batch, i, j, group, processed) ==
    IF j > Len(batch) THEN [group |-> group, processed |-> processed]
    ELSE IF \/ i >= j
            \/ batch[j] \in processed
            \/ ~FingerprintSet(items[batch[j]].fingerprint)
    THEN DupInner(items, batch, i, j + 1, group, processed)
    ELSE IF Truthy(are_fingerprints_similar(items[batch[i]].fingerprint,
                                            items[batch[j]].fingerprint))
    THEN DupInner(items, batch, i, j + 1, Append(group, batch[j]),
                  processed \cup {batch[j]})
    ELSE DupInner(items, batch, i, j + 1, group, processed)

\* _find_duplicates, outer loop: for i, item1 in enumerate(items)
RECURSIVE DupOuter(_, _, _, _)
DupOuter(items, batch, i, processed) ==
    IF i > Len(batch) THEN << >>
    ELSE IF \/ batch[i] \in processed
            \/ ~FingerprintSet(items[batch[i]].fingerprint)
    THEN DupOuter(items, batch, i + 1, processed)
    ELSE LET inner == DupInner(items, batch, i, 1, <<batch[i]>>,
                               processed \cup {batch[i]})
         IN (IF Len(inner.group) > 1 THEN <<inner.group>> ELSE << >>)
                \o DupOuter(items, batch, i + 1, inner.processed)

find_duplicates(items, batch) == DupOuter(items, batch, 1, {})

\* a missing published_at sorting first instead of last
PublishedKeyNoneFirst(item) ==
    IF item.published_at = None THEN 0 ELSE item.published_at[1]

\* key=lambda x: x.published_at or datetime.max
PublishedKey(item) ==
    IF item.published_at = None THEN DatetimeMax ELSE item.published_at[1]

\* sorted(dup_group, key=...): stable, ascending
RECURSIVE InsertByKey(_, _, _)
InsertByKey(items, sorted, id) ==
    IF sorted = << >> THEN <<id>>
    ELSE IF PublishedKey(items[sorted[Len(sorted)]]) <= PublishedKey(items[id])
    THEN Append(sorted, id)
    ELSE Append(InsertByKey(items, SubSeq(sorted, 1, Len(sorted) - 1), id),
                sorted[Len(sorted)])

RECURSIVE SortedGroup(_, _)
SortedGroup(items, group) ==
    IF group = << >> THEN << >>
    ELSE InsertByKey(items,
                     SortedGroup(items, SubSeq(group, 1, Len(group) - 1)),
                     group[Len(group)])

\* for item in sorted_group[1:]: skip_ids.add(item.id)
SkippedOf(items, group) ==
    LET sorted_group == SortedGroup(items, group)
    IN {sorted_group[k] : k \in 2..Len(sorted_group)}

SkipIds(items, groups) ==
    UNION {SkippedOf(items, groups[g]) : g \in 1..Len(groups)}

\* the number of components of an embedding the embedding model produces
EmbeddingDim == 2

\* batch_check_novelty raises (lines 188-220) when a historical embedding does
\* not decode to a vector of the dimension of the batch's embeddings
BatchRaises(store, utcnow, items) ==
    \E p \in Range(BatchHistorical(store,
                                   {items[k][1] : k \in 1..Len(items)},
                                   utcnow - 7 * NoveltyWeeks)) :
        \/ Len(p.embedding[1]) % 4 /= 0
        \/ Len(bytes_to_embedding(p.embedding[1])) /= EmbeddingDim

\* the follow-up marker appended to every stored row
AnnotatedEveryRow(processed, run_items, results) ==
    {[p EXCEPT !.key_information = Append(@, FollowupMarker)] : p \in processed}

\* the ProcessedItem rows with the follow-up marker appended where the
\* novelty result says so (lines 179-185)
Annotated(processed, run_items, results) ==
    {IF /\ \E k \in 1..Len(run_items) : run_items[k][1] = p.id
        /\ results[p.id].is_followup
     THEN [p EXCEPT !.key_information = Append(@, FollowupMarker)]
     ELSE p : p \in processed}

\* _create_clusters, the loop over clustering_result.clusters: the
\* StoryCluster and ClusterMember rows added for clusters[k..]
RECURSIVE ClusterRows(_, _, _, _, _, _)
ClusterRows(clusters, k, run_items, week_number, sc, cm) ==
    IF k > Len(clusters)
    THEN [story_clusters |-> sc, cluster_members |-> cm, created |-> 0]
    ELSE IF Len(clusters[k].item_indices) < 2
    THEN ClusterRows(clusters, k + 1, run_items, week_number, sc, cm)
    ELSE LET cluster == clusters[k]
             canonical_idx == cluster.representative_idx
             story_cluster ==
                 [id |-> NextId(sc), week_number |-> week_number,
                  canonical_item_id |-> run_items[canonical_idx + 1][1]]
             RECURSIVE AddMembers(_, _)
             AddMembers(m, rows) ==
                 IF m > Len(cluster.item_indices) THEN rows
                 ELSE LET idx == cluster.item_indices[m]
                      IN AddMembers(m + 1, rows \cup
                             {[id |-> NextId(rows),
                               cluster_id |-> story_cluster.id,
                               processed_item_id |-> run_items[idx + 1][1],
                               similarity_score |->
                                   IF idx = canonical_idx THEN Scale
                                   ELSE (9 * Scale) \div 10]})
             rest == ClusterRows(clusters, k + 1, run_items, week_number,
                                 sc \cup {story_cluster}, AddMembers(1, cm))
         IN [rest EXCEPT !.created = @ + 1]

\* _create_clusters with the noise items stored as one more cluster
create_clusters_with_noise(run_items, week_number, sc, cm, hdbscan_labels) ==
    IF Len(run_items) < 2
    THEN [story_clusters |-> sc, cluster_members |-> cm, created |-> 0]
    ELSE LET embeddings == [i \in 0..(Len(run_items) - 1) |->
                               run_items[i + 1][2]]
             clustering_result == cluster_items(embeddings, 2, hdbscan_labels)
             noise == clustering_result.noise_indices
             noise_cluster == [id |-> -1, item_indices |-> noise,
                               representative_idx |->
                                   IF noise = << >> THEN 0 ELSE noise[1]]
         IN ClusterRows(Append([k \in 1..Len(clustering_result.clusters) |->
                                   [id |-> clustering_result.clusters[k].id,
                                    item_indices |->
                                        clustering_result.clusters[k].item_indices,
                                    representative_idx |->
                                        clustering_result.clusters[k].representative_idx]],
                               noise_cluster),
                        1, run_items, week_number, sc, cm)

\* _create_clusters(session, processed_items, week_number)
create_clusters(run_items, week_number, sc, cm, hdbscan_labels) ==
    IF Len(run_items) < 2
    THEN [story_clusters |-> sc, cluster_members |-> cm, created |-> 0]
    ELSE LET embeddings == [i \in 0..(Len(run_items) - 1) |->
                               run_items[i + 1][2]]
             clustering_result == cluster_items(embeddings, 2, hdbscan_labels)
         IN ClusterRows(clustering_result.clusters, 1, run_items, week_number,
                        sc, cm)

NoRun ==
    /\ pc = "idle"
    /\ unprocessed = << >>
    /\ duplicates = << >>
    /\ skip_ids = {}
    /\ items_to_process = << >>
    /\ next_item = 1
    /\ processed_run = << >>
    /\ result = EmptyResult
    /\ novelty_results = None
    /\ error = None
    /\ run_kind = "none"
    /\ run_quiet = FALSE

NoHarness ==
    /\ cl_input = None
    /\ cl_result = None
    /\ nv_input = None
    /\ nv_result = None
    /\ fp_input = None
    /\ fp_result = None
    /\ fp_object = None
    /\ cs_input = None
    /\ cs_result = None

Init ==
    /\ content_items \in InitialStores
    /\ processed_items = {}
    /\ story_clusters = {}
    /\ cluster_members = {}
    /\ now = StartDay
    /\ hdbscan_installed \in BOOLEAN
    /\ api_key_set = TRUE
    /\ NoRun
    /\ history = [ran |-> FALSE, failed |-> FALSE, ingested |-> FALSE]
    /\ NoHarness

\* a fetcher stores a new ContentItem (ingestion/substack.py, ingest)
IngestUpTo(max_items, item) ==
    /\ pc = "idle"
    /\ Len(content_items) < max_items
    /\ content_items' = Append(content_items,
                               NewContentItem(Len(content_items) + 1, item))
    /\ history' = [history EXCEPT !.ingested = TRUE]
    /\ UNCHANGED <<processed_items, story_clusters, cluster_members, now,
                   configVars, runVars, harnessVars>>

Ingest(item) == IngestUpTo(MaxItems, item)

\* process_new_items, lines 72-98, on the ProcessedItem rows `processed`
Begin(kind, processed) ==
    LET batch == UnprocessedQuery(content_items, processed)
    IN /\ run_kind' = kind
       /\ run_quiet' = (history.ran /\ ~history.ingested)
       /\ result' = EmptyResult
       /\ novelty_results' = None
       /\ error' = None
       /\ duplicates' = << >>
       /\ skip_ids' = {}
       /\ items_to_process' = << >>
       /\ next_item' = 1
       /\ processed_run' = << >>
       /\ unprocessed' = batch
       /\ IF batch = << >>
          THEN /\ pc' = "done"
               /\ UNCHANGED content_items
          ELSE /\ pc' = "dedup"
               /\ content_items' = WithFingerprints(content_items, batch)

StartRun ==
    /\ pc = "idle"
    /\ Begin("process", processed_items)
    /\ UNCHANGED <<processed_items, story_clusters, cluster_members, now,
                   configVars, history, harnessVars>>

\* reprocess_all without the deletion of the cluster rows
ReprocessAllKeepingClusters ==
    /\ pc = "idle"
    /\ processed_items' = {}
    /\ Begin("reprocess", {})
    /\ UNCHANGED <<story_clusters, cluster_members, now, configVars, history,
                   harnessVars>>

\* reprocess_all: delete ClusterMember, StoryCluster and ProcessedItem rows,
\* commit, then process_new_items
ReprocessAll ==
    /\ pc = "idle"
    /\ cluster_members' = {}
    /\ story_clusters' = {}
    /\ processed_items' = {}
    /\ Begin("reprocess", {})
    /\ UNCHANGED <<now, configVars, history, harnessVars>>

\* process_new_items, lines 100-124
FindDuplicates ==
    /\ pc = "dedup"
    /\ api_key_set
    /\ LET groups == find_duplicates(content_items, unprocessed)
           skips == SkipIds(content_items, groups)
       IN /\ duplicates' = groups
          /\ result' = [result EXCEPT !.duplicates_found = Len(groups)]
          /\ skip_ids' = skips
          /\ items_to_process' =
                 SelectSeq(unprocessed, LAMBDA i : i \notin skips)
    /\ next_item' = 1
    /\ processed_run' = << >>
    /\ pc' = "process"
    /\ UNCHANGED <<storeVars, now, configVars, unprocessed, novelty_results,
                   error, run_kind, run_quiet, history, harnessVars>>

\* a loop iteration that swallows a failure without counting it
ProcessOutcomeSilent(item_id, extraction, encoding) ==
    IF extraction /= Raised /\ encoding /= Raised
    THEN LET embedding == Encode(extraction)
             processed == [id |-> NextId(processed_items),
                           content_item_id |-> item_id,
                           summary |-> extraction,
                           key_information |-> << >>,
                           embedding |-> Some(embedding_to_bytes(embedding)),
                           processed_at |-> now]
         IN [processed_items |-> processed_items \cup {processed},
             processed_run |-> Append(processed_run,
                                      <<processed.id, embedding>>),
             result |-> [result EXCEPT !.items_processed = @ + 1]]
    ELSE [processed_items |-> processed_items,
          processed_run |-> processed_run,
          result |-> result]

\* the effect of one loop iteration (lines 126-165) on the store and the run,
\* given what extract and encode did
ProcessOutcome(item_id, extraction, encoding) ==
    IF extraction /= Raised /\ encoding /= Raised
    THEN LET embedding == Encode(extraction)
             processed == [id |-> NextId(processed_items),
                           content_item_id |-> item_id,
                           summary |-> extraction,
                           key_information |-> << >>,
                           embedding |-> Some(embedding_to_bytes(embedding)),
                           processed_at |-> now]
         IN [processed_items |-> processed_items \cup {processed},
             processed_run |-> Append(processed_run,
                                      <<processed.id, embedding>>),
             result |-> [result EXCEPT !.items_processed = @ + 1]]
    ELSE [processed_items |-> processed_items,
          processed_run |-> processed_run,
          result |-> [result EXCEPT
                         !.items_failed = @ + 1,
                         !.errors = Append(@,
                             [item |-> item_id,
                              error |-> IF extraction = Raised
                                        THEN "extract" ELSE "encode"])]]

\* the loop without failure isolation: a raised call ends the loop
ProcessItemAborting ==
    /\ pc = "process"
    /\ next_item <= Len(items_to_process)
    /\ \E extraction \in ExtractOutcomes, encoding \in EncodeOutcomes :
          LET out == ProcessOutcome(items_to_process[next_item], extraction,
                                    encoding)
          IN /\ processed_items' = out.processed_items
             /\ processed_run' = out.processed_run
             /\ result' = out.result
             /\ IF extraction = Raised \/ encoding = Raised
                THEN pc' = "cluster" /\ next_item' = next_item
                ELSE pc' = pc /\ next_item' = next_item + 1
    /\ UNCHANGED <<content_items, story_clusters, cluster_members, now,
                   configVars, unprocessed, duplicates, skip_ids,
                   items_to_process, novelty_results, error, run_kind,
                   run_quiet, history, harnessVars>>

\* one iteration of "for item in items_to_process"
ProcessItem ==
    /\ pc = "process"
    /\ next_item <= Len(items_to_process)
    /\ \E extraction \in ExtractOutcomes, encoding \in EncodeOutcomes :
          LET out == ProcessOutcome(items_to_process[next_item], extraction,
                                    encoding)
          IN /\ processed_items' = out.processed_items
             /\ processed_run' = out.processed_run
             /\ result' = out.result
    /\ next_item' = next_item + 1
    /\ UNCHANGED <<content_items, story_clusters, cluster_members, now,
                   configVars, pc, unprocessed, duplicates, skip_ids,
                   items_to_process, novelty_results, error, run_kind,
                   run_quiet, history, harnessVars>>

\* process_new_items, lines 167-187: commit, then the batch novelty check
NoveltyStage ==
    /\ pc = "process"
    /\ next_item > Len(items_to_process)
    /\ processed_run /= << >> => ~BatchRaises(processed_items, now, processed_run)
    /\ result' = [result EXCEPT !.items_skipped = Cardinality(skip_ids)]
    /\ IF processed_run = << >>
       THEN UNCHANGED <<processed_items, novelty_results>>
       ELSE LET novelty == batch_check_novelty(processed_items, now,
                                               processed_run, None, None)
            IN /\ novelty_results' = Some(novelty)
               /\ processed_items' = Annotated(processed_items, processed_run,
                                               novelty)
    /\ pc' = "cluster"
    /\ UNCHANGED <<content_items, story_clusters, cluster_members, now,
                   configVars, unprocessed, duplicates, skip_ids,
                   items_to_process, next_item, processed_run, error,
                   run_kind, run_quiet, history, harnessVars>>

\* process_new_items, lines 189-205: story clusters, then return result
ClusterStage ==
    /\ pc = "cluster"
    /\ \E hdbscan_labels \in
           IF hdbscan_installed /\ Len(processed_run) >= 2
           THEN {Some(l) : l \in HdbscanLabelings(Len(processed_run), 2)}
           ELSE {None} :
          LET rows == create_clusters(processed_run, WeekNumber(now),
                                      story_clusters, cluster_members,
                                      hdbscan_labels)
          IN /\ story_clusters' = rows.story_clusters
             /\ cluster_members' = rows.cluster_members
             /\ result' = [result EXCEPT !.clusters_created =
                              IF processed_run = << >> THEN 0
                              ELSE rows.created]
    /\ pc' = "done"
    /\ UNCHANGED <<content_items, processed_items, now, configVars,
                   unprocessed, duplicates, skip_ids, items_to_process,
                   next_item, processed_run, novelty_results, error,
                   run_kind, run_quiet, history, harnessVars>>

\* the caller takes the returned ProcessingResult, or the exception that
\* ended the run; the run's locals are gone
Return ==
    /\ pc \in {"done", "aborted"}
    /\ pc' = "idle"
    /\ unprocessed' = << >>
    /\ duplicates' = << >>
    /\ skip_ids' = {}
    /\ items_to_process' = << >>
    /\ next_item' = 1
    /\ processed_run' = << >>
    /\ result' = EmptyResult
    /\ novelty_results' = None
    /\ error' = None
    /\ run_kind' = "none"
    /\ run_quiet' = FALSE
    /\ history' = [ran |-> TRUE,
                   failed |-> result.items_failed > 0 \/ error /= None,
                   ingested |-> FALSE]
    /\ UNCHANGED <<storeVars, now, configVars, harnessVars>>

Next ==
    \/ \E item \in SampleItems : Ingest(item)
    \/ StartRun
    \/ ReprocessAll
    \/ FindDuplicates
    \/ ProcessItem
    \/ NoveltyStage
    \/ ClusterStage
    \/ Return

Spec == Init /\ [][Next]_vars

(***************************************************************************)
(* The pipeline with its environment: a forced re-ingest, a missing API    *)
(* key, rows written under another embedding model, and the errors that    *)
(* end a run                                                               *)
(***************************************************************************)
\* bound: the number of ContentItem rows
MaxOpsItems == 2

\* the entries of the feed, in the order they are published
ItemV == [content_text |-> TextV, published_at |-> Some(3)]

ItemW == [content_text |-> TextW, published_at |-> Some(4)]

ItemX == [content_text |-> TextX, published_at |-> Some(5)]

OpsFeed == <<ItemU, ItemV, ItemW, ItemX>>

\* a ProcessedItem written while another embedding model was configured: its
\* embedding has one component
LegacyProcessedItem ==
    [id |-> 1, content_item_id |-> 1, summary |-> "s1",
     key_information |-> << >>,
     embedding |-> Some(ComponentToBytes(1)), processed_at |-> StartDay]

\* the stores the pipeline starts from: an empty one, and one that holds a
\* processed item of the earlier embedding model
OpsStores ==
    {[content_items |-> << >>, processed_items |-> {}],
     [content_items |-> WithFingerprints(Rows(<<ItemU>>), <<1>>),
      processed_items |-> {LegacyProcessedItem}]}

InitOps ==
    /\ \E store \in OpsStores :
          /\ content_items = store.content_items
          /\ processed_items = store.processed_items
    /\ story_clusters = {}
    /\ cluster_members = {}
    /\ now = StartDay
    /\ hdbscan_installed = FALSE
    /\ api_key_set \in BOOLEAN
    /\ NoRun
    /\ history = [ran |-> FALSE, failed |-> FALSE, ingested |-> FALSE]
    /\ NoHarness

\* a fetcher stores the next entry of the feed
IngestOps ==
    IngestUpTo(MaxOpsItems, OpsFeed[(Len(content_items) % Len(OpsFeed)) + 1])

\* ingest with force=True of an entry that is already stored: the row is
\* updated in place (ingestion/substack.py, lines 184-193)
ForceReingest(id, item) ==
    /\ pc = "idle"
    /\ id \in 1..Len(content_items)
    /\ content_items' = [content_items EXCEPT
                             ![id].content_text = item.content_text,
                             ![id].published_at = item.published_at]
    /\ history' = [history EXCEPT !.ingested = TRUE]
    /\ UNCHANGED <<processed_items, story_clusters, cluster_members, now,
                   configVars, runVars, harnessVars>>

\* process_new_items, lines 100-124, without an API key: ContentExtractor()
\* raises ValueError at line 123 and the exception leaves the run
ConfigAbort ==
    /\ pc = "dedup"
    /\ ~api_key_set
    /\ LET groups == find_duplicates(content_items, unprocessed)
           skips == SkipIds(content_items, groups)
       IN /\ duplicates' = groups
          /\ result' = [result EXCEPT !.duplicates_found = Len(groups)]
          /\ skip_ids' = skips
          /\ items_to_process' =
                 SelectSeq(unprocessed, LAMBDA i : i \notin skips)
    /\ error' = Some("api key not configured")
    /\ pc' = "aborted"
    /\ UNCHANGED <<storeVars, now, configVars, unprocessed, next_item,
                   processed_run, novelty_results, run_kind, run_quiet,
                   history, harnessVars>>

\* the abort undoing the ProcessedItems the run had committed
NoveltyAbortRollingBack ==
    /\ pc = "process"
    /\ next_item > Len(items_to_process)
    /\ processed_run /= << >>
    /\ result' = [result EXCEPT !.items_skipped = Cardinality(skip_ids)]
    /\ error' = Some("store unreachable")
    /\ processed_items' =
           {p \in processed_items :
               \A k \in 1..Len(processed_run) : processed_run[k][1] /= p.id}
    /\ pc' = "aborted"
    /\ UNCHANGED <<content_items, story_clusters, cluster_members, now,
                   configVars, unprocessed, duplicates, skip_ids,
                   items_to_process, next_item, processed_run,
                   novelty_results, run_kind, run_quiet, history, harnessVars>>

\* process_new_items, lines 167-176: the items are committed, then
\* batch_check_novelty raises, because the store cannot be reached or because
\* a historical embedding has another dimension; nothing catches it
NoveltyAbort ==
    /\ pc = "process"
    /\ next_item > Len(items_to_process)
    /\ processed_run /= << >>
    /\ result' = [result EXCEPT !.items_skipped = Cardinality(skip_ids)]
    /\ \E cause \in {"store unreachable"} \cup
                     (IF BatchRaises(processed_items, now, processed_run)
                      THEN {"embedding dimension"} ELSE {}) :
          error' = Some(cause)
    /\ pc' = "aborted"
    /\ UNCHANGED <<storeVars, now, configVars, unprocessed, duplicates,
                   skip_ids, items_to_process, next_item, processed_run,
                   novelty_results, run_kind, run_quiet, history, harnessVars>>

\* process_new_items, lines 189-197: _create_clusters raises because the store
\* cannot be reached; get_session rolls back the rows it had added
ClusterAbort ==
    /\ pc = "cluster"
    /\ processed_run /= << >>
    /\ error' = Some("store unreachable")
    /\ pc' = "aborted"
    /\ UNCHANGED <<storeVars, now, configVars, unprocessed, duplicates,
                   skip_ids, items_to_process, next_item, processed_run,
                   result, novelty_results, run_kind, run_quiet, history,
                   harnessVars>>

\* the first entry of the feed is the one a forced re-ingest updates
ForceTargets == {1}

NextOps ==
    \/ IngestOps
    \/ \E id \in ForceTargets : ForceReingest(id, ItemB)
    \/ StartRun
    \/ ReprocessAll
    \/ FindDuplicates
    \/ ConfigAbort
    \/ ProcessItem
    \/ NoveltyStage
    \/ NoveltyAbort
    \/ ClusterStage
    \/ ClusterAbort
    \/ Return

SpecOps == InitOps /\ [][NextOps]_vars

(***************************************************************************)
(* The pipeline run after run over a feed of unrelated entries             *)
(***************************************************************************)
\* bound: the number of ContentItem rows
MaxFeedItems == 4

InitFeed ==
    /\ content_items = << >>
    /\ processed_items = {}
    /\ story_clusters = {}
    /\ cluster_members = {}
    /\ now = StartDay
    /\ hdbscan_installed = FALSE
    /\ api_key_set = TRUE
    /\ NoRun
    /\ history = [ran |-> FALSE, failed |-> FALSE, ingested |-> FALSE]
    /\ NoHarness

IngestFeed ==
    IngestUpTo(MaxFeedItems, OpsFeed[(Len(content_items) % Len(OpsFeed)) + 1])

NextFeed ==
    \/ IngestFeed
    \/ StartRun
    \/ FindDuplicates
    \/ ProcessItem
    \/ NoveltyStage
    \/ ClusterStage
    \/ Return

SpecFeed == InitFeed /\ [][NextFeed]_vars

(***************************************************************************)
(* The pipeline run after run over a feed that repeats itself: entries     *)
(* that are near-duplicates of each other, and an unrelated one            *)
(***************************************************************************)
\* bound: the number of ContentItem rows
MaxDedupItems == 3

\* the entries in the order the fetcher stores them
DedupFeed == <<ItemC, ItemB, ItemU, ItemA>>

InitDedup ==
    /\ content_items = << >>
    /\ processed_items = {}
    /\ story_clusters = {}
    /\ cluster_members = {}
    /\ now = StartDay
    /\ hdbscan_installed \in BOOLEAN
    /\ api_key_set = TRUE
    /\ NoRun
    /\ history = [ran |-> FALSE, failed |-> FALSE, ingested |-> FALSE]
    /\ NoHarness

IngestDedup ==
    IngestUpTo(MaxDedupItems,
               DedupFeed[(Len(content_items) % Len(DedupFeed)) + 1])

NextDedup ==
    \/ IngestDedup
    \/ StartRun
    \/ ReprocessAll
    \/ FindDuplicates
    \/ ProcessItem
    \/ NoveltyStage
    \/ ClusterStage
    \/ Return

SpecDedup == InitDedup /\ [][NextDedup]_vars

(***************************************************************************)
(* Clustering harness: cluster_items applied to bounded inputs             *)
(***************************************************************************)
\* bounds: the number of embeddings of one call, the largest min_cluster_size
MaxEmbeddings == 3
MaxMinClusterSize == 3

ClusterVectors == {ZeroVec, <<1, 0>>, <<12, 5>>, <<3, 4>>}

\* all embedding arrays of at most MaxEmbeddings rows, indexed from 0
EmbeddingArrays ==
    UNION {[0..(n - 1) -> ClusterVectors] : n \in 0..MaxEmbeddings}

InitCluster ==
    /\ content_items = << >>
    /\ processed_items = {}
    /\ story_clusters = {}
    /\ cluster_members = {}
    /\ now = StartDay
    /\ hdbscan_installed \in BOOLEAN
    /\ api_key_set = TRUE
    /\ NoRun
    /\ history = [ran |-> FALSE, failed |-> FALSE, ingested |-> FALSE]
    /\ NoHarness

\* cluster_items(embeddings, min_cluster_size) where importing hdbscan fails
ClusterFallback ==
    /\ cl_input = None
    /\ ~hdbscan_installed
    /\ \E embeddings \in EmbeddingArrays,
          min_cluster_size \in 1..MaxMinClusterSize :
          /\ cl_input' = Some([embeddings |-> embeddings,
                               min_cluster_size |-> min_cluster_size])
          /\ cl_result' = Some(cluster_items(embeddings, min_cluster_size,
                                             None))
    /\ UNCHANGED <<storeVars, now, configVars, runVars, history,
                   nvVars, fpVars, csVars>>

\* cluster_items(embeddings, min_cluster_size) with hdbscan installed; hdbscan
\* rejects a min_cluster_size below 2
ClusterHdbscan ==
    /\ cl_input = None
    /\ hdbscan_installed
    /\ \E embeddings \in EmbeddingArrays,
          min_cluster_size \in 2..MaxMinClusterSize :
          \E labels \in
              IF NumItems(embeddings) < min_cluster_size THEN {None}
              ELSE {Some(l) : l \in HdbscanLabelings(NumItems(embeddings),
                                                     min_cluster_size)} :
              /\ cl_input' = Some([embeddings |-> embeddings,
                                   min_cluster_size |-> min_cluster_size])
              /\ cl_result' = Some(cluster_items(embeddings, min_cluster_size,
                                                 labels))
    /\ UNCHANGED <<storeVars, now, configVars, runVars, history,
                   nvVars, fpVars, csVars>>

NextCluster == ClusterFallback \/ ClusterHdbscan

SpecCluster == InitCluster /\ [][NextCluster]_vars

(***************************************************************************)
(* Novelty harness: check_novelty and batch_check_novelty applied to       *)
(* bounded stores                                                          *)
(***************************************************************************)
\* bounds: the number of stored ProcessedItem rows, the size of a batch
MaxHistory == 2
MaxBatch == 2

\* the day of the check: a Monday, week 4 of year 1
NoveltyNow == 392

\* what a stored row can hold: an embedding (or none) and the day it was
\* processed: today, last week, three weeks ago, five weeks ago
HistoryKinds ==
    {[embedding |-> Some(embedding_to_bytes(<<4, 3>>)), processed_at |-> 392],
     [embedding |-> Some(embedding_to_bytes(<<1, 0>>)), processed_at |-> 385],
     [embedding |-> Some(embedding_to_bytes(<<1, 0>>)), processed_at |-> 371],
     [embedding |-> Some(embedding_to_bytes(<<-1, 0>>)), processed_at |-> 385],
     [embedding |-> Some(embedding_to_bytes(<<12, 5>>)), processed_at |-> 357],
     [embedding |-> None, processed_at |-> 392]}

HistoryRow(id, kind) ==
    [id |-> id, content_item_id |-> id, summary |-> "s1",
     key_information |-> << >>, embedding |-> kind.embedding,
     processed_at |-> kind.processed_at]

NoveltyStores ==
    UNION {{{HistoryRow(i, f[i]) : i \in 1..n} : f \in [1..n -> HistoryKinds]} :
              n \in 0..MaxHistory}

\* arguments of the calls
QueryVectors == {<<1, 0>>, <<4, 3>>, ZeroVec}

WeeksBackArgs == {None, Some(0), Some(2)}

\* no threshold, 0.0, 0.8 and 1.0
ThresholdArgs == {None, Some(0), Some(13520), Some(Scale)}

\* batches of distinct item ids
BatchVectors == {<<1, 0>>, ZeroVec}

Batches ==
    {b \in UNION {[1..n -> (1..(MaxHistory + 1)) \X BatchVectors] :
                     n \in 1..MaxBatch} :
        \A i, j \in 1..Len(b) : b[i][1] = b[j][1] => i = j}

InitNovelty ==
    /\ content_items = << >>
    /\ processed_items \in NoveltyStores
    /\ story_clusters = {}
    /\ cluster_members = {}
    /\ now = NoveltyNow
    /\ hdbscan_installed = FALSE
    /\ api_key_set = TRUE
    /\ NoRun
    /\ history = [ran |-> FALSE, failed |-> FALSE, ingested |-> FALSE]
    /\ NoHarness

\* one call of check_novelty
CheckNoveltyCall ==
    /\ nv_input = None
    /\ \E item_id \in 1..(MaxHistory + 1), embedding \in QueryVectors,
          weeks_back \in WeeksBackArgs, threshold \in ThresholdArgs :
          /\ nv_input' = Some([items |-> <<<<item_id, embedding>>>>,
                               weeks_back |-> weeks_back,
                               threshold |-> threshold])
          /\ nv_result' = Some([single |-> <<check_novelty(
                                                processed_items, now, item_id,
                                                embedding, weeks_back,
                                                threshold)>>,
                                batch |-> None])
    /\ UNCHANGED <<storeVars, now, configVars, runVars, history,
                   clVars, fpVars, csVars>>

\* one call of batch_check_novelty, and check_novelty called once per item of
\* the batch against the same store
BatchCheckNoveltyCall ==
    /\ nv_input = None
    /\ \E items \in Batches, weeks_back \in {None},
          threshold \in {None, Some(13520)} :
          /\ nv_input' = Some([items |-> items, weeks_back |-> weeks_back,
                               threshold |-> threshold])
          /\ nv_result' =
                 Some([single |-> [k \in 1..Len(items) |->
                                      check_novelty(processed_items, now,
                                                    items[k][1], items[k][2],
                                                    weeks_back, threshold)],
                       batch |-> Some(batch_check_novelty(
                                          processed_items, now, items,
                                          weeks_back, threshold))])
    /\ UNCHANGED <<storeVars, now, configVars, runVars, history,
                   clVars, fpVars, csVars>>

NextNovelty == CheckNoveltyCall \/ BatchCheckNoveltyCall

SpecNovelty == InitNovelty /\ [][NextNovelty]_vars

(***************************************************************************)
(* Similar-items harness: both novelty checks against stores that hold     *)
(* more similar items than a result lists                                  *)
(***************************************************************************)
\* bound: the number of stored ProcessedItem rows
MaxSimilar == 7

\* stored rows of last week at cosine similarity 1.0 and 12/13 to <<1, 0>>
SimilarKinds ==
    {[embedding |-> Some(embedding_to_bytes(<<1, 0>>)), processed_at |-> 385],
     [embedding |-> Some(embedding_to_bytes(<<12, 5>>)), processed_at |-> 385]}

SimilarStores ==
    UNION {{{HistoryRow(i, f[i]) : i \in 1..n} : f \in [1..n -> SimilarKinds]} :
              n \in 0..MaxSimilar}

\* the checked items: a stored one, one that is not stored, a batch of two
SimilarBatches ==
    {<<<<1, <<1, 0>>>>>>, <<<<MaxSimilar + 1, <<1, 0>>>>>>,
     <<<<1, <<1, 0>>>>, <<2, <<12, 5>>>>>>}

InitSimilar ==
    /\ content_items = << >>
    /\ processed_items \in SimilarStores
    /\ story_clusters = {}
    /\ cluster_members = {}
    /\ now = NoveltyNow
    /\ hdbscan_installed = FALSE
    /\ api_key_set = TRUE
    /\ NoRun
    /\ history = [ran |-> FALSE, failed |-> FALSE, ingested |-> FALSE]
    /\ NoHarness

\* check_novelty for every item of `items`, and batch_check_novelty for all
\* of them, against the same store
SimilarItemsCall ==
    /\ nv_input = None
    /\ \E items \in SimilarBatches, threshold \in {None, Some(Scale)} :
          /\ nv_input' = Some([items |-> items, weeks_back |-> None,
                               threshold |-> threshold])
          /\ nv_result' =
                 Some([single |-> [k \in 1..Len(items) |->
                                      check_novelty(processed_items, now,
                                                    items[k][1], items[k][2],
                                                    None, threshold)],
                       batch |-> Some(batch_check_novelty(
                                          processed_items, now, items,
                                          None, threshold))])
    /\ UNCHANGED <<storeVars, now, configVars, runVars, history,
                   clVars, fpVars, csVars>>

NextSimilar == SimilarItemsCall

SpecSimilar == InitSimilar /\ [][NextSimilar]_vars

(***************************************************************************)
(* Merge harness: merge_clusters applied to the Cluster objects built for   *)
(* bounded embeddings and label vectors                                    *)
(***************************************************************************)
\* bound: the number of embeddings of one call
MaxMergeItems == 3

MergeVectors == {ZeroVec, <<1, 0>>, <<4, 3>>, <<0, 1>>}

\* label vectors over n items with clusters of any size, noise included
LabelVectors(n) == HdbscanLabelings(n, 1)

MergeArrays ==
    UNION {[0..(n - 1) -> MergeVectors] : n \in 0..MaxMergeItems}

\* merge thresholds 0.5 and 0.9 (the default)
MergeThresholds == {5, MergeThreshold}

InitMerge ==
    /\ content_items = << >>
    /\ processed_items = {}
    /\ story_clusters = {}
    /\ cluster_members = {}
    /\ now = StartDay
    /\ hdbscan_installed = TRUE
    /\ api_key_set = TRUE
    /\ NoRun
    /\ history = [ran |-> FALSE, failed |-> FALSE, ingested |-> FALSE]
    /\ NoHarness

\* merge_clusters(clusters, embeddings, merge_threshold) on the clusters
\* built, as in cluster_items, for the labels of the embeddings
MergeCall ==
    /\ cl_input = None
    /\ \E embeddings \in MergeArrays, merge_threshold \in MergeThresholds :
          \E labels \in LabelVectors(NumItems(embeddings)) :
              LET unique_labels ==
                      {labels[i] : i \in DOMAIN labels} \ {-1}
                  clusters == BuildClusters(embeddings, labels, unique_labels)
              IN /\ cl_input' = Some([embeddings |-> embeddings,
                                      clusters |-> clusters,
                                      merge_threshold |-> merge_threshold])
                 /\ cl_result' = Some(merge_clusters(clusters, embeddings,
                                                     merge_threshold))
    /\ UNCHANGED <<storeVars, now, configVars, runVars, history,
                   nvVars, fpVars, csVars>>

NextMerge == MergeCall

SpecMerge == InitMerge /\ [][NextMerge]_vars

(***************************************************************************)
(* Similarity harness: cosine_similarity and cosine_similarity_matrix      *)
(* applied to bounded vectors                                              *)
(***************************************************************************)
\* bound: the number of rows of the matrix call
MaxRows == 3

RowArrays == UNION {[0..(n - 1) -> Vectors] : n \in 0..MaxRows}

InitCosine ==
    /\ content_items = << >>
    /\ processed_items = {}
    /\ story_clusters = {}
    /\ cluster_members = {}
    /\ now = StartDay
    /\ hdbscan_installed = FALSE
    /\ api_key_set = TRUE
    /\ NoRun
    /\ history = [ran |-> FALSE, failed |-> FALSE, ingested |-> FALSE]
    /\ NoHarness

\* cosine_similarity(a, b)
CosineCall ==
    /\ cs_input = None
    /\ \E a, b \in Vectors :
          /\ cs_input' = Some([op |-> "cosine_similarity", a |-> a, b |-> b])
          /\ cs_result' = Some(cosine_similarity(a, b))
    /\ UNCHANGED <<storeVars, now, configVars, runVars, history, clVars,
                   nvVars, fpVars>>

\* cosine_similarity_matrix(embeddings)
CosineMatrixCall ==
    /\ cs_input = None
    /\ \E embeddings \in RowArrays :
          /\ cs_input' = Some([op |-> "cosine_similarity_matrix",
                                embeddings |-> embeddings])
          /\ cs_result' = Some(cosine_similarity_matrix(embeddings))
    /\ UNCHANGED <<storeVars, now, configVars, runVars, history, clVars,
                   nvVars, fpVars>>

NextCosine == CosineCall \/ CosineMatrixCall

SpecCosine == InitCosine /\ [][NextCosine]_vars

(***************************************************************************)
(* Fingerprinter harness: the functions of processing/fingerprint.py       *)
(* applied to bounded texts and stored signatures                          *)
(***************************************************************************)
\* bounds: the number of texts of one find_duplicates call, and the number of
\* compute_fingerprint calls made one after the other
MaxTexts == 2
MaxCalls == 3

\* TextB with other letter case, more whitespace and punctuation between words
TextP == <<"A", " ", " ", "B", ",", " ", "c", " ", "d", " ", "e", "\n", "f", " ", "g", " ", "h", "!">>

\* two texts that differ by one apostrophe inside a word
TextR == <<"a", "b", " ", "c", " ", "d">>

TextS == <<"a", "'", "b", " ", "c", " ", "d">>

\* a text of whitespace only
TextBlank == <<" ">>

HarnessTexts == {TextE, TextB, TextC, TextU, TextP, TextR, TextS, TextBlank}

\* thresholds 0.0, 0.5, 0.8 (DEFAULT_THRESHOLD) and 1.0
Thresholds == {0, 5, 8, 10}

DefaultThreshold == 8

\* what the fingerprint column can hold: signatures the pipeline wrote, the
\* same signature under another version tag, and strings it did not write
SigOld == [compute_fingerprint(TextB) EXCEPT !.version = 2]

SigText == [kind |-> "text"]

SigPartial == [kind |-> "partial", version |-> 1]

SigArray == [kind |-> "array"]

SigShort ==
    [kind |-> "json", version |-> 1, num_perm |-> NUM_PERMUTATIONS,
     hashvalues |-> <<1, 2, 3>>]

StoredSignatures ==
    {NoFingerprint, EmptyFingerprint, compute_fingerprint(TextB),
     compute_fingerprint(TextC), compute_fingerprint(TextU), SigOld, SigText,
     SigPartial, SigArray, SigShort}

TextLists == UNION {[1..n -> HarnessTexts] : n \in 0..MaxTexts}

InitFingerprint ==
    /\ content_items = << >>
    /\ processed_items = {}
    /\ story_clusters = {}
    /\ cluster_members = {}
    /\ now = StartDay
    /\ hdbscan_installed = FALSE
    /\ api_key_set = TRUE
    /\ NoRun
    /\ history = [ran |-> FALSE, failed |-> FALSE, ingested |-> FALSE]
    /\ NoHarness

\* one compute_fingerprint(text) call, after the calls made so far
ComputeFingerprintCall ==
    /\ IF fp_input = None THEN TRUE
       ELSE /\ fp_input[1].op = "compute_fingerprint"
            /\ Len(fp_input[1].texts) < MaxCalls
    /\ \E text \in HarnessTexts :
          LET texts == IF fp_input = None THEN << >> ELSE fp_input[1].texts
              fingerprints == IF fp_result = None THEN << >> ELSE fp_result[1]
              mh == MinHashUpdate(NewMinHash(fp_object), text)
          IN /\ fp_input' = Some([op |-> "compute_fingerprint",
                                   texts |-> Append(texts, text)])
             /\ IF text = << >>
                THEN /\ fp_result' = Some(Append(fingerprints,
                                                  EmptyFingerprint))
                     /\ UNCHANGED fp_object
                ELSE /\ fp_result' =
                            Some(Append(fingerprints,
                                        [kind |-> "json", version |-> 1,
                                         num_perm |-> NUM_PERMUTATIONS,
                                         hashvalues |-> mh]))
                     /\ fp_object' = Some(mh)
    /\ UNCHANGED <<storeVars, now, configVars, runVars, history, clVars,
                   nvVars, csVars>>

\* are_near_duplicates(text1, text2, threshold)
NearDuplicatesCall ==
    /\ fp_input = None
    /\ \E text1, text2 \in HarnessTexts, threshold \in Thresholds :
          /\ fp_input' = Some([op |-> "are_near_duplicates", text1 |-> text1,
                                text2 |-> text2, threshold |-> threshold])
          /\ fp_result' = Some(are_near_duplicates(text1, text2, threshold))
    /\ UNCHANGED <<storeVars, now, configVars, runVars, history, clVars,
                   nvVars, csVars, fp_object>>

\* find_duplicates(texts, threshold)
FindDuplicatePairsCall ==
    /\ fp_input = None
    /\ \E texts \in TextLists, threshold \in Thresholds :
          /\ fp_input' = Some([op |-> "find_duplicates", texts |-> texts,
                                threshold |-> threshold])
          /\ fp_result' = Some(find_duplicate_pairs(texts, threshold))
    /\ UNCHANGED <<storeVars, now, configVars, runVars, history, clVars,
                   nvVars, csVars, fp_object>>

\* are_fingerprints_similar(fp1, fp2, threshold) on two stored signatures
FingerprintsSimilarHarnessCall ==
    /\ fp_input = None
    /\ \E fp1, fp2 \in StoredSignatures, threshold \in Thresholds :
          /\ fp_input' = Some([op |-> "are_fingerprints_similar",
                                fp1 |-> fp1, fp2 |-> fp2,
                                threshold |-> threshold])
          /\ fp_result' = Some(FingerprintsSimilarCall(fp1, fp2, threshold))
    /\ UNCHANGED <<storeVars, now, configVars, runVars, history, clVars,
                   nvVars, csVars, fp_object>>

NextFingerprint ==
    \/ ComputeFingerprintCall
    \/ NearDuplicatesCall
    \/ FindDuplicatePairsCall
    \/ FingerprintsSimilarHarnessCall

SpecFingerprint == InitFingerprint /\ [][NextFingerprint]_vars

(***************************************************************************)
(* Properties of the pipeline (specifications Spec and SpecDedup)          *)
(***************************************************************************)
\* the ProcessedItem rows created by the current run
RunCreated ==
    {p \in processed_items :
        \E k \in 1..Len(processed_run) : processed_run[k][1] = p.id}

AfterDedup == pc \in {"process", "cluster", "done"}

\* C1: a run of process_new_items that starts with no raw item added since
\* the previous run ended creates no ProcessedItem and changes no cluster
\* row; stated for a previous run in which no item failed, so that what the
\* later run picks up can only be an item the previous run skipped as a
\* duplicate.
C1_SecondRunIsNoOp ==
    [][(run_kind = "process" /\ run_quiet /\ ~history.failed)
           => /\ {p.content_item_id : p \in processed_items'}
                     = {p.content_item_id : p \in processed_items}
              /\ story_clusters' = story_clusters
              /\ cluster_members' = cluster_members]_vars

\* C2: every raw item has at most one ProcessedItem, and every ProcessedItem
\* holds the summary the extraction call returned and the embedding the
\* embedding call computed from it; an item of the current run for which a
\* call raised has none.
C2_OneProcessedItemPerRawItem ==
    /\ \A p, q \in processed_items :
           p.content_item_id = q.content_item_id => p = q
    /\ \A p \in processed_items :
           /\ p.content_item_id \in 1..Len(content_items)
           /\ p.summary \in Summaries
           /\ p.embedding = Some(embedding_to_bytes(Encode(p.summary)))
    /\ \A p \in RunCreated :
           /\ \E k \in 1..(next_item - 1) :
                  items_to_process[k] = p.content_item_id
           /\ \A e \in 1..Len(result.errors) :
                  result.errors[e].item /= p.content_item_id

\* a forced reprocess has recreated ProcessedItems while one item failed
C2_Witness ==
    /\ pc = "done"
    /\ run_kind = "reprocess"
    /\ history.ran
    /\ Cardinality(RunCreated) >= 1
    /\ result.items_failed >= 1

\* item k is published before item m; no date is later than any date, and
\* of two items with the same date the first in batch order is the earlier
PublishedBefore(k, m) ==
    LET a == content_items[k].published_at
        b == content_items[m].published_at
    IN \/ a /= None /\ b = None
       \/ a /= None /\ b /= None /\ a[1] < b[1]
       \/ a = b /\ k < m

FingerprintsSimilar(k, m) ==
    Truthy(are_fingerprints_similar(content_items[k].fingerprint,
                                    content_items[m].fingerprint))

\* a batch of three items: the first two near-duplicates, the third unrelated
TwoDuplicatesAndOneUnrelated ==
    /\ Len(unprocessed) = 3
    /\ FingerprintsSimilar(unprocessed[1], unprocessed[2])
    /\ ~FingerprintsSimilar(unprocessed[1], unprocessed[3])
    /\ ~FingerprintsSimilar(unprocessed[2], unprocessed[3])

C4_FailuresAreIsolated ==
    AfterDedup =>
        /\ \A k \in 1..Len(items_to_process) :
               k < next_item =>
                   LET item == items_to_process[k]
                       created == \E p \in RunCreated :
                                      p.content_item_id = item
                       failed == \E e \in 1..Len(result.errors) :
                                     result.errors[e].item = item
                   IN created /= failed
        /\ \A e \in 1..Len(result.errors) :
               /\ result.errors[e].error \in {"extract", "encode"}
               /\ \A p \in processed_items :
                      p.content_item_id /= result.errors[e].item
        /\ result.items_failed = Len(result.errors)
        /\ result.items_processed = Len(processed_run)
        /\ pc \in {"cluster", "done"}
               => next_item = Len(items_to_process) + 1

\* a run has finished in which an item failed and a later item was processed
C4_Witness ==
    /\ pc = "done"
    /\ \E e \in 1..Len(result.errors) :
           \E p \in RunCreated : result.errors[e].item < p.content_item_id

(***************************************************************************)
(* Properties of cluster_items (specification SpecCluster)                 *)
(***************************************************************************)
\* how often index i occurs in the member lists of all clusters
ClusterOccurrences(r, i) ==
    Cardinality({cm \in UNION {{<<c, m>> :
                                   m \in 1..Len(r.clusters[c].item_indices)} :
                                  c \in 1..Len(r.clusters)} :
                    r.clusters[cm[1]].item_indices[cm[2]] = i})

NoiseOccurrences(r, i) ==
    Cardinality({k \in 1..Len(r.noise_indices) : r.noise_indices[k] = i})

\* C5: every input index occurs exactly once, either in one cluster's member
\* list or in noise_indices, and nothing else is listed.
C5_Partition ==
    cl_result /= None =>
        LET r == cl_result[1]
            n == NumItems(cl_input[1].embeddings)
        IN /\ \A i \in 0..(n - 1) :
                  \/ ClusterOccurrences(r, i) = 1 /\ NoiseOccurrences(r, i) = 0
                  \/ ClusterOccurrences(r, i) = 0 /\ NoiseOccurrences(r, i) = 1
           /\ \A k \in 1..Len(r.noise_indices) :
                  r.noise_indices[k] \in 0..(n - 1)
           /\ \A c \in 1..Len(r.clusters) :
                  \A m \in 1..Len(r.clusters[c].item_indices) :
                      r.clusters[c].item_indices[m] \in 0..(n - 1)

\* the threshold fallback returned a cluster and left an index in noise
C5_Witness ==
    /\ cl_result /= None
    /\ ~hdbscan_installed
    /\ Len(cl_result[1].clusters) >= 1
    /\ cl_result[1].noise_indices /= << >>

\* C6: no returned cluster has fewer than min_cluster_size members, for
\* every min_cluster_size >= 2.
C6_MinClusterSize ==
    (cl_result /= None /\ cl_input[1].min_cluster_size >= 2) =>
        \A c \in 1..Len(cl_result[1].clusters) :
            Len(cl_result[1].clusters[c].item_indices)
                >= cl_input[1].min_cluster_size

\* the threshold fallback has run on the call's embeddings
FallbackRan ==
    /\ cl_result /= None
    /\ ~hdbscan_installed
    /\ NumItems(cl_input[1].embeddings) >= cl_input[1].min_cluster_size

LabelMembers(labels, c) == {i \in DOMAIN labels : labels[i] = c}

\* the labels are those of the greedy pass: clusters are numbered in the
\* order of their seeds (their lowest members); every other member is similar
\* to a member before it; an item after the seed that no earlier cluster
\* holds and the cluster did not take is similar to none of the members
\* before it; a noise item is similar to no later item that was still free
\* when it was visited; no cluster has one member
GreedyLabels(embeddings, labels) ==
    LET sim(i, j) == cosine_similarity(embeddings[i], embeddings[j])
        used == {labels[i] : i \in DOMAIN labels} \ {-1}
        seed(c) == SetMin(LabelMembers(labels, c))
    IN /\ used = 0..(Cardinality(used) - 1)
       /\ \A b, c \in used : b < c => seed(b) < seed(c)
       /\ \A c \in used :
              /\ Cardinality(LabelMembers(labels, c)) >= 2
              /\ \A j \in LabelMembers(labels, c) \ {seed(c)} :
                     \E m \in LabelMembers(labels, c) :
                         m < j /\ sim(j, m) >= SemanticThreshold
              /\ \A j \in DOMAIN labels :
                     (j > seed(c) /\ (labels[j] = -1 \/ labels[j] > c))
                         => \A m \in LabelMembers(labels, c) :
                                m < j => sim(j, m) < SemanticThreshold
       /\ \A i \in DOMAIN labels :
              labels[i] = -1 =>
                  \A j \in DOMAIN labels :
                      (j > i /\ (labels[j] = -1 \/ seed(labels[j]) > i))
                          => sim(i, j) < SemanticThreshold

\* the call is cluster_items([A, A, B], min_cluster_size=2) with A and B
\* dissimilar
InputAAB ==
    LET e == cl_input[1].embeddings
    IN /\ NumItems(e) = 3
       /\ cl_input[1].min_cluster_size = 2
       /\ e[0] = e[1]
       /\ cosine_similarity(e[0], e[2]) < SemanticThreshold

ResultCluster01Noise2 ==
    /\ Len(cl_result[1].clusters) = 1
    /\ cl_result[1].clusters[1].item_indices = <<0, 1>>
    /\ cl_result[1].noise_indices = <<2>>

\* C7 as stated: the fallback's labels are those of the greedy pass, and on
\* [A, A, B] with A and B dissimilar the result is cluster {0, 1}, noise {2}.
C7_GreedyFallbackAnyA ==
    FallbackRan =>
        /\ GreedyLabels(cl_input[1].embeddings, cl_result[1].labels)
        /\ InputAAB => ResultCluster01Noise2

\* C7, amended: as stated, with A nonzero in the example.
C7_GreedyFallback ==
    FallbackRan =>
        /\ GreedyLabels(cl_input[1].embeddings, cl_result[1].labels)
        /\ (InputAAB /\ cl_input[1].embeddings[0] /= ZeroVec)
               => ResultCluster01Noise2

\* the fallback absorbed an item that is not similar to the cluster's seed
C7_Witness ==
    /\ FallbackRan
    /\ \E i, j \in DOMAIN cl_result[1].labels :
           /\ cl_result[1].labels[j] /= -1
           /\ cl_result[1].labels[i] = cl_result[1].labels[j]
           /\ i = SetMin(LabelMembers(cl_result[1].labels,
                                      cl_result[1].labels[j]))
           /\ cosine_similarity(cl_input[1].embeddings[i],
                                cl_input[1].embeddings[j]) < SemanticThreshold

(***************************************************************************)
(* Properties of the novelty checker (specification SpecNovelty)           *)
(***************************************************************************)
\* the historical items of the window for the checked item
Window(item_id, weeks_back_arg) ==
    {p \in processed_items :
        /\ p.id /= item_id
        /\ p.embedding /= None
        /\ p.processed_at >= now - 7 * OrDefault(weeks_back_arg, NoveltyWeeks)}

CosineTo(embedding, p) ==
    cosine_similarity(embedding, bytes_to_embedding(p.embedding[1]))

\* the largest cosine similarity to an item of a nonempty window
LargestCosine(embedding, window) ==
    SetMax({CosineTo(embedding, p) : p \in window})

\* the result r of checking <<item_id, embedding>> is that of the rule with
\* threshold `threshold` and maximal similarity `max_similarity` (used for a
\* nonempty window only)
NoveltyRule(r, window, threshold, max_similarity) ==
    IF window = {}
    THEN /\ r.is_novel
         /\ r.novelty_score = Scale
         /\ r.similar_items = << >>
         /\ ~r.is_followup
    ELSE /\ r.is_novel = (max_similarity < threshold)
         /\ r.novelty_score = Scale - max_similarity

\* C8 as stated: the threshold is the one passed (the default when none is
\* passed) and max_similarity is the largest cosine similarity to a
\* historical item of the window.
C8_NoveltyAsStated ==
    nv_result /= None =>
        \A k \in 1..Len(nv_input[1].items) :
            LET item == nv_input[1].items[k]
                window == Window(item[1], nv_input[1].weeks_back)
                threshold == IF nv_input[1].threshold = None
                             THEN SemanticThreshold
                             ELSE nv_input[1].threshold[1]
            IN NoveltyRule(nv_result[1].single[k], window, threshold,
                           IF window = {} THEN 0
                           ELSE LargestCosine(item[2], window))

\* C8, amended: the threshold is the one passed when it is not 0 (the default
\* when none or 0 is passed) and max_similarity is the largest cosine
\* similarity to a historical item of the window, or 0 when that is negative.
C8_Novelty ==
    nv_result /= None =>
        \A k \in 1..Len(nv_input[1].items) :
            LET item == nv_input[1].items[k]
                window == Window(item[1], nv_input[1].weeks_back)
                threshold == IF nv_input[1].threshold \in {None, Some(0)}
                             THEN SemanticThreshold
                             ELSE nv_input[1].threshold[1]
            IN NoveltyRule(nv_result[1].single[k], window, threshold,
                           IF window = {} THEN 0
                           ELSE Max2(0, LargestCosine(item[2], window)))

\* check_novelty was called with a threshold for an item all of whose
\* history is at negative similarity
C8_Witness ==
    /\ nv_result /= None
    /\ nv_result[1].batch = None
    /\ nv_input[1].threshold = Some(13520)
    /\ LET item == nv_input[1].items[1]
           window == Window(item[1], nv_input[1].weeks_back)
       IN /\ window /= {}
          /\ LargestCosine(item[2], window) < 0
          /\ nv_result[1].single[1].is_novel

\* a historical item of the window is a recent match: similarity >= 0.7 and
\* processed in the current or the preceding week
RecentMatch(item, weeks_back_arg) ==
    \E p \in Window(item[1], weeks_back_arg) :
        /\ CosineTo(item[2], p) >= FollowupBar
        /\ WeekNumber(p.processed_at) \in {WeekNumber(now), WeekNumber(now - 7)}

\* C9: is_followup holds exactly when the window has a recent match, for
\* check_novelty and for batch_check_novelty.
C9_FollowupIffRecentMatch ==
    nv_result /= None =>
        \A k \in 1..Len(nv_input[1].items) :
            LET item == nv_input[1].items[k]
            IN /\ nv_result[1].single[k].is_followup
                      = RecentMatch(item, nv_input[1].weeks_back)
               /\ nv_result[1].batch /= None
                      => nv_result[1].batch[1][item[1]].is_followup
                             = RecentMatch(item, nv_input[1].weeks_back)

\* C10: batch_check_novelty returns for each item of the batch the result of
\* check_novelty called for that item against the same store.
C10_BatchEqualsSingle ==
    (nv_result /= None /\ nv_result[1].batch /= None) =>
        \A k \in 1..Len(nv_input[1].items) :
            nv_result[1].batch[1][nv_input[1].items[k][1]]
                = nv_result[1].single[k]

(***************************************************************************)
(* The batch novelty check inside a run                                    *)
(***************************************************************************)
\* the ProcessedItem ids of the batch the run hands to batch_check_novelty
RunIds == {processed_run[k][1] : k \in 1..Len(processed_run)}

\* the novelty check has returned to the run
NoveltyChecked == novelty_results /= None

\* the results the check returned are those computed against the stored rows
\* that are not part of the batch, and every item of the batch is stored
HistoryExcludesBatch ==
    NoveltyChecked =>
        /\ RunIds \subseteq {p.id : p \in processed_items}
        /\ novelty_results[1] =
               batch_check_novelty({p \in processed_items : p.id \notin RunIds},
                                   now, processed_run, None, None)
        /\ \A id \in RunIds :
              \A k \in 1..Len(novelty_results[1][id].similar_items) :
                  novelty_results[1][id].similar_items[k].id \notin RunIds

\* C11: in a run that created ProcessedItems the batch novelty check executes
\* exactly once: its results appear in one step, taken when the loop over the
\* items has ended and every ProcessedItem of the run is stored, and they are
\* there when clustering starts; no item of the batch is part of the history
\* the results were computed against (a run that created no ProcessedItem has
\* no batch to check)
C11_NoveltyOnceAfterCommit ==
    /\ [](pc \in {"cluster", "done"} /\ processed_run /= << >>
             => NoveltyChecked)
    /\ []HistoryExcludesBatch
    /\ [][novelty_results' /= novelty_results /\ novelty_results' /= None
             => /\ novelty_results = None
                /\ pc = "process" /\ pc' = "cluster"
                /\ next_item > Len(items_to_process)
                /\ Len(processed_run) = result.items_processed
                /\ RunIds \subseteq {p.id : p \in processed_items}]_vars

\* a run has checked a batch of two items against a history that holds an
\* item similar to one of them
C11_Witness ==
    /\ pc = "done"
    /\ NoveltyChecked
    /\ Len(processed_run) >= 2
    /\ \E id \in RunIds : novelty_results[1][id].similar_items /= << >>

(***************************************************************************)
(* similar_items (specification SpecSimilar)                               *)
(***************************************************************************)
\* similar_items of the result r for the checked item <<id, embedding>> lists
\* the most similar of the items of `historical` at similarity >= threshold
SimilarItemsListed(r, id, embedding, historical, threshold) ==
    LET listed == r.similar_items
        qualifying == {p \in historical : CosineTo(embedding, p) >= threshold}
    IN /\ Len(listed) <= 5
       /\ Len(listed) = IF Cardinality(qualifying) < 5
                        THEN Cardinality(qualifying) ELSE 5
       /\ \A k \in 1..(Len(listed) - 1) :
              listed[k].similarity >= listed[k + 1].similarity
       /\ \A k \in 1..Len(listed) :
              /\ listed[k].id /= id
              /\ \E p \in qualifying :
                    /\ p.id = listed[k].id
                    /\ CosineTo(embedding, p) = listed[k].similarity
              /\ \A m \in 1..Len(listed) : listed[m].id = listed[k].id => m = k
       /\ \A p \in qualifying :
              (\A k \in 1..Len(listed) : listed[k].id /= p.id)
                  => \A k \in 1..Len(listed) :
                         CosineTo(embedding, p) <= listed[k].similarity

\* C12: in every novelty result, of check_novelty and of
\* batch_check_novelty, similar_items has at most 5 entries, is sorted by
\* similarity in descending order, never contains the checked item, and
\* holds the 5 most similar of the historical items that reach the threshold
C12_SimilarItems ==
    nv_result /= None =>
        LET items == nv_input[1].items
            threshold == OrDefault(nv_input[1].threshold, SemanticThreshold)
            batch_ids == {items[k][1] : k \in 1..Len(items)}
        IN \A k \in 1..Len(items) :
               /\ SimilarItemsListed(nv_result[1].single[k], items[k][1],
                                     items[k][2],
                                     Window(items[k][1], nv_input[1].weeks_back),
                                     threshold)
               /\ nv_result[1].batch /= None =>
                      SimilarItemsListed(
                          nv_result[1].batch[1][items[k][1]], items[k][1],
                          items[k][2],
                          {p \in Window(items[k][1], nv_input[1].weeks_back) :
                              p.id \notin batch_ids},
                          threshold)

\* a stored item was checked against six other stored items that all reach
\* the threshold, at different similarities: five are listed
C12_Witness ==
    /\ nv_result /= None
    /\ nv_input[1].items[1][1] = 1
    /\ LET item == nv_input[1].items[1]
           window == Window(1, None)
           r == nv_result[1].single[1]
       IN /\ Cardinality({p \in window :
                             CosineTo(item[2], p) >=
                                 OrDefault(nv_input[1].threshold,
                                           SemanticThreshold)}) >= 6
          /\ Len(r.similar_items) = 5
          /\ r.similar_items[1].similarity > r.similar_items[5].similarity

(***************************************************************************)
(* Story clusters written by the runs (specification SpecFeed)             *)
(***************************************************************************)
\* the step in which a run writes its story clusters and returns
ClusterStep == pc = "cluster" /\ pc' = "done"

\* the rows the step adds
NewStoryClusters == story_clusters' \ story_clusters

NewClusterMembers == cluster_members' \ cluster_members

\* C13: when a run has clustered week W, the StoryCluster and ClusterMember
\* rows stored for W are those of that run: every cluster row of W and every
\* member row of such a cluster refers to ProcessedItems of the run only, no
\* row of an earlier run for W is left
C13_WeekClustersReplaced ==
    [][ClusterStep /\ Len(processed_run) >= 2
          => \A c \in story_clusters' :
                 c.week_number = WeekNumber(now)
                     => /\ c.canonical_item_id \in RunIds
                        /\ \A m \in cluster_members' :
                               m.cluster_id = c.id
                                   => m.processed_item_id \in RunIds]_vars

\* the label vectors the clustering of the run's embeddings can have returned
RunLabelings ==
    IF hdbscan_installed /\ Len(processed_run) >= 2
    THEN {Some(l) : l \in HdbscanLabelings(Len(processed_run), 2)}
    ELSE {None}

\* the rows the step adds are the rows of the clusters of one clustering
\* result: a member row for every item of a cluster, none for a noise item
RowsFollowClustering ==
    \E hdbscan_labels \in RunLabelings :
        LET n == Len(processed_run)
            embeddings == [i \in 0..(n - 1) |-> processed_run[i + 1][2]]
            clustering == cluster_items(embeddings, 2, hdbscan_labels)
            ItemOf(idx) == processed_run[idx + 1][1]
        IN /\ Cardinality(NewStoryClusters) = Len(clustering.clusters)
           /\ \A k \in 1..Len(clustering.clusters) :
                  \E c \in NewStoryClusters :
                      {m.processed_item_id :
                           m \in {x \in NewClusterMembers : x.cluster_id = c.id}}
                          = {ItemOf(idx) :
                                 idx \in Range(clustering.clusters[k].item_indices)}
           /\ \A k \in 1..Len(clustering.noise_indices) :
                  \A m \in NewClusterMembers :
                      m.processed_item_id /= ItemOf(clustering.noise_indices[k])

\* C14: among the rows one clustering run writes, each ProcessedItem is a
\* member of at most one StoryCluster and appears there once, a noise item
\* has no ClusterMember row, every StoryCluster has at least 2 members, and a
\* run that processed fewer than 2 items writes no row
C14_ClusterRows ==
    [][ClusterStep
          => /\ \A m1, m2 \in NewClusterMembers :
                    m1.processed_item_id = m2.processed_item_id => m1 = m2
             /\ \A m \in NewClusterMembers :
                    /\ m.processed_item_id \in RunIds
                    /\ \E c \in NewStoryClusters : c.id = m.cluster_id
             /\ \A c \in NewStoryClusters :
                    Cardinality({m \in NewClusterMembers :
                                    m.cluster_id = c.id}) >= 2
             /\ RowsFollowClustering
             /\ Len(processed_run) < 2
                    => NewStoryClusters = {} /\ NewClusterMembers = {}]_vars

\* a run of four items has written two story clusters
C14_Witness ==
    /\ pc = "done"
    /\ Len(processed_run) = 4
    /\ result.clusters_created = 2
    /\ Cardinality(story_clusters) = 2
    /\ Cardinality(cluster_members) = 4

(***************************************************************************)
(* reprocess_all (specification SpecOps)                                   *)
(***************************************************************************)
\* the step in which reprocess_all deletes the rows and the re-run starts
ReprocessStep == pc = "idle" /\ run_kind' = "reprocess"

\* C15: reprocess_all deletes every ClusterMember, StoryCluster and
\* ProcessedItem row before the re-run starts, keeps the stored fingerprints,
\* and hands every RawItem to the re-run as unprocessed; while the re-run is
\* under way every ProcessedItem and cluster row is one the re-run wrote
C15_ReprocessDeletesAll ==
    /\ [][ReprocessStep
             => /\ cluster_members' = {}
                /\ story_clusters' = {}
                /\ processed_items' = {}
                /\ Len(content_items') = Len(content_items)
                /\ \A i \in 1..Len(content_items) :
                       FingerprintSet(content_items[i].fingerprint)
                           => content_items'[i] = content_items[i]
                /\ unprocessed' = [i \in 1..Len(content_items) |-> i]
                /\ pc' = IF content_items = << >> THEN "done" ELSE "dedup"]_vars
    /\ [](run_kind = "reprocess"
             => /\ \A p \in processed_items : p.id \in RunIds
                /\ \A c \in story_clusters : c.canonical_item_id \in RunIds
                /\ \A m \in cluster_members :
                       /\ m.processed_item_id \in RunIds
                       /\ \E c \in story_clusters : c.id = m.cluster_id)

\* a reprocess has started on a store whose items the previous run had all
\* handled without a failure: the rows are gone, the fingerprints are there
C15_Witness ==
    /\ pc = "dedup"
    /\ run_kind = "reprocess"
    /\ run_quiet
    /\ ~history.failed
    /\ Len(content_items) >= 2
    /\ processed_items = {}
    /\ story_clusters = {}
    /\ \A i \in 1..Len(content_items) :
           FingerprintSet(content_items[i].fingerprint)

(***************************************************************************)
(* Errors that end a run (specification SpecOps)                           *)
(***************************************************************************)
\* C16: a run that a configuration error (no API key) aborts writes nothing:
\* no step of a process_new_items run without an API key changes a
\* ContentItem, a ProcessedItem or a cluster row
C16_ConfigErrorTouchesNothing ==
    [][~api_key_set /\ run_kind' = "process" => UNCHANGED storeVars]_vars

\* C17: a stored embedding of another dimension is an item-scoped error: no
\* run ends with the exception it causes
C17_DataIntegrityIsItemScoped ==
    error /= Some("embedding dimension")

\* C18: when an error ends a run after the loop over the items, the step
\* that aborts and the return to the caller leave the ContentItems and
\* ProcessedItems as they are: every ProcessedItem the run created is stored
\* and every batch item with text has its fingerprint
C18_AbortKeepsCommitted ==
    /\ [][pc' = "aborted" \/ pc = "aborted"
             => /\ content_items' = content_items
                /\ processed_items' = processed_items]_vars
    /\ [](pc = "aborted" /\ processed_run /= << >>
             => /\ RunIds \subseteq {p.id : p \in processed_items}
                /\ \A i \in Range(unprocessed) :
                       content_items[i].content_text /= << >>
                           => FingerprintSet(content_items[i].fingerprint))

\* a run that created a ProcessedItem was ended by an unreachable store
C18_Witness ==
    /\ pc = "aborted"
    /\ error = Some("store unreachable")
    /\ processed_run /= << >>
    /\ RunIds \subseteq {p.id : p \in processed_items}

(***************************************************************************)
(* Fields that are written once                                            *)
(***************************************************************************)
\* C19: a fingerprint that is set is never changed or cleared, by a run, by
\* reprocess_all or by a forced re-ingest; the fingerprint step writes only
\* fingerprints that are unset
C19_FingerprintWrittenOnce ==
    [][/\ Len(content_items') >= Len(content_items)
       /\ \A i \in 1..Len(content_items) :
              FingerprintSet(content_items[i].fingerprint)
                  => content_items'[i].fingerprint
                         = content_items[i].fingerprint]_vars

\* a run has started on an item whose text a forced re-ingest has replaced
\* after its fingerprint was written: the fingerprint is the one of the
\* earlier text
C19_Witness ==
    /\ pc = "dedup"
    /\ 1 \in Range(unprocessed)
    /\ content_items[1].content_text = TextB
    /\ content_items[1].fingerprint = FingerprintTable[TextU]

\* the number of follow-up markers in a key_information list
Markers(info) == Cardinality({k \in 1..Len(info) : info[k] = FollowupMarker})

\* C20: a ProcessedItem that stays stored keeps all its fields except
\* key_information; key_information changes only by the append of the
\* follow-up marker, in the novelty stage of the run that created the item
\* and only when the novelty result says follow-up; no ProcessedItem ever
\* carries more than one marker
C20_OnlyFollowupMarkerAdded ==
    /\ [][run_kind' /= "reprocess" \/ pc /= "idle"
             => \A p \in processed_items :
                    \E q \in processed_items' :
                        /\ q.id = p.id
                        /\ [q EXCEPT !.key_information = << >>]
                               = [p EXCEPT !.key_information = << >>]
                        /\ \/ q.key_information = p.key_information
                           \/ /\ q.key_information
                                     = Append(p.key_information, FollowupMarker)
                              /\ pc = "process" /\ pc' = "cluster"
                              /\ p.id \in RunIds
                              /\ novelty_results'[1][p.id].is_followup]_vars
    /\ [](\A p \in processed_items : Markers(p.key_information) <= 1)

\* a run has marked one of its items as a follow-up
C20_Witness ==
    /\ pc = "done"
    /\ NoveltyChecked
    /\ \E p \in processed_items :
           /\ p.id \in RunIds
           /\ novelty_results[1][p.id].is_followup
           /\ p.key_information = <<FollowupMarker>>


(***************************************************************************)
(* Properties of the fingerprinter (specification SpecFingerprint)         *)
(***************************************************************************)
\* the call the harness made
FpCalled(op) == fp_input /= None /\ fp_input[1].op = op

\* a signature the current implementation can use: version 1 with one hash
\* value for each of the NUM_PERMUTATIONS permutations
Usable(fp) ==
    /\ fp.kind = "json"
    /\ fp.version = 1
    /\ fp.num_perm = NUM_PERMUTATIONS
    /\ Len(fp.hashvalues) = NUM_PERMUTATIONS

\* C21: comparing a stored signature that is empty, malformed or of another
\* version with any signature returns None: the call does not raise and does
\* not return a similarity verdict
C21_UnusableComparesUnknown ==
    (/\ FpCalled("are_fingerprints_similar")
     /\ ~Usable(fp_input[1].fp1) \/ ~Usable(fp_input[1].fp2))
        => fp_result[1] = [raised |-> FALSE, value |-> None]

\* C22: a comparison involving an empty text never reports a near-duplicate,
\* at any threshold: not are_near_duplicates, not a pair of find_duplicates,
\* not are_fingerprints_similar on the signature of an empty text
C22_EmptyNeverSimilar ==
    /\ FpCalled("are_near_duplicates") =>
           (TextE \in {fp_input[1].text1, fp_input[1].text2}
                => fp_result[1] = FALSE)
    /\ FpCalled("find_duplicates") =>
           \A k \in 1..Len(fp_result[1]) :
               /\ fp_input[1].texts[fp_result[1][k][1] + 1] /= TextE
               /\ fp_input[1].texts[fp_result[1][k][2] + 1] /= TextE
    /\ FpCalled("are_fingerprints_similar") =>
           (compute_fingerprint(TextE) \in {fp_input[1].fp1, fp_input[1].fp2}
                => fp_result[1].value /= Some(TRUE))

\* C23: compute_fingerprint returns the same signature for the same text
\* whatever was fingerprinted in between, the signature of a non-empty text
\* has similarity 1.0 (128 of 128) with itself, and comparing two signatures
\* gives the same outcome in either order
C23_DeterministicSymmetric ==
    /\ FpCalled("compute_fingerprint") =>
           \A i, j \in 1..Len(fp_input[1].texts) :
               /\ fp_input[1].texts[i] = fp_input[1].texts[j]
                      => fp_result[1][i] = fp_result[1][j]
               /\ fp_input[1].texts[i] /= << >>
                      => compute_similarity_from_fingerprints(
                             fp_result[1][i], fp_result[1][i])
                         = Some(NUM_PERMUTATIONS)
    /\ FpCalled("are_fingerprints_similar") =>
           LET a == fp_input[1].fp1
               b == fp_input[1].fp2
           IN /\ fp_result[1]
                     = FingerprintsSimilarCall(b, a, fp_input[1].threshold)
              /\ ~fp_result[1].raised =>
                     compute_similarity_from_fingerprints(a, b)
                         = compute_similarity_from_fingerprints(b, a)
    /\ FpCalled("are_near_duplicates") =>
           fp_result[1] = are_near_duplicates(fp_input[1].text2,
                                              fp_input[1].text1,
                                              fp_input[1].threshold)

\* the same non-empty text fingerprinted twice with another text in between
C23_Witness ==
    /\ FpCalled("compute_fingerprint")
    /\ Len(fp_input[1].texts) = 3
    /\ fp_input[1].texts[1] = fp_input[1].texts[3]
    /\ fp_input[1].texts[1] /= << >>
    /\ fp_input[1].texts[2] \notin {<< >>, fp_input[1].texts[1]}
    /\ tokenize(fp_input[1].texts[2]) /= << >>

\* the words of a text once letter case, punctuation and the amount of
\* whitespace are disregarded: punctuation deleted, not replaced
Canonical(text) ==
    LET lowered == [i \in 1..Len(text) |-> LowerChar(text[i])]
        kept == SelectSeq(lowered,
                          LAMBDA c : c \in WordChars \/ c \in SpaceChars)
    IN SplitFrom(kept, 1, << >>)

\* C24: two texts that differ only by punctuation, letter case or whitespace,
\* punctuation inside a word included, are near-duplicates at the default
\* threshold 0.8
C24_PunctuationCaseWhitespace ==
    (/\ FpCalled("are_near_duplicates")
     /\ fp_input[1].threshold = DefaultThreshold
     /\ Canonical(fp_input[1].text1) = Canonical(fp_input[1].text2))
        => fp_result[1] = TRUE

(***************************************************************************)
(* Properties of the similarity engine (specification SpecCosine)          *)
(***************************************************************************)
CsCalled(op) == cs_input /= None /\ cs_input[1].op = op

RunClusters ==
    {c \in story_clusters :
        \E m \in cluster_members :
            m.cluster_id = c.id /\ m.processed_item_id \in RunIds}

\* C26: the result of a completed run accounts for every item of the batch:
\* processed + skipped + failed is the number of unprocessed items found, each
\* item is skipped, processed or failed and only one of the three, there is
\* one error message per failed item, and clusters_created is the number of
\* StoryCluster rows the run wrote
C26_ResultAccountsForBatch ==
    pc = "done" =>
        /\ result.items_processed + result.items_skipped + result.items_failed
               = Len(unprocessed)
        /\ \A k \in 1..Len(unprocessed) :
               LET item == unprocessed[k]
                   skipped == item \in skip_ids
                   created == \E p \in RunCreated : p.content_item_id = item
                   failures == {e \in 1..Len(result.errors) :
                                   result.errors[e].item = item}
               IN /\ Cardinality(failures) <= 1
                  /\ Cardinality({b \in {skipped, created, failures /= {}} : b})
                         = 1
                  /\ (skipped /\ created) = FALSE
                  /\ (skipped /\ failures /= {}) = FALSE
                  /\ (created /\ failures /= {}) = FALSE
        /\ result.items_skipped = Cardinality(skip_ids)
        /\ result.items_failed = Len(result.errors)
        /\ result.items_processed = Cardinality(RunCreated)
        /\ result.clusters_created = Cardinality(RunClusters)

\* a completed run that skipped an item, processed an item and failed on one
C26_Witness ==
    /\ pc = "done"
    /\ result.items_processed >= 1
    /\ result.items_skipped >= 1
    /\ result.items_failed >= 1

\* C27: after the duplicate step no two items passed on to extraction have
\* fingerprints whose similarity meets the dedup threshold
C27_NoTwoKeptSimilar ==
    AfterDedup =>
        \A k, m \in 1..Len(items_to_process) :
            k /= m =>
                ~Truthy(are_fingerprints_similar(
                            content_items[items_to_process[k]].fingerprint,
                            content_items[items_to_process[m]].fingerprint))

(***************************************************************************)
(* Properties of merge_clusters (specification SpecMerge) and of the       *)
(* clusters of cluster_items (specification SpecCluster)                   *)
(***************************************************************************)
\* the centroid is the mean of the members and the representative is the
\* member of lowest batch index among those nearest to the centroid
WellRepresented(cluster, embeddings) ==
    LET members == Range(cluster.item_indices)
        total == VecSum(embeddings, cluster.item_indices)
        m == Len(cluster.item_indices)
        dist(i) == CentroidDist2(embeddings[i], total, m)
        nearest == {i \in members : \A l \in members : dist(i) <= dist(l)}
    IN /\ cluster.centroid = [total |-> total, count |-> m]
       /\ cluster.representative_idx = SetMin(nearest)

\* C28: every cluster merge_clusters returns has the mean of its members as
\* centroid and, as representative, the member of lowest batch index among
\* the members nearest to the centroid
C28_RepresentativeOfMerged ==
    (cl_result /= None /\ Len(cl_input[1].clusters) >= 2) =>
        \A c \in 1..Len(cl_result[1]) :
            WellRepresented(cl_result[1][c], cl_input[1].embeddings)

\* sim_matrix[i, j] >= merge_threshold for input clusters i and j
Meets(i, j) ==
    CentroidsMeet(cl_input[1].clusters[i].centroid,
                  cl_input[1].clusters[j].centroid,
                  cl_input[1].merge_threshold)

\* input cluster j opens an output cluster: no earlier opening cluster has a
\* centroid similar to its own
RECURSIVE Opens(_)
Opens(j) == \A i \in 1..(j - 1) : Opens(i) => ~Meets(i, j)

\* the input cluster that takes input cluster j: the first opening cluster
\* that is j itself or has a centroid similar to j's
Owner(j) == SetMin({i \in 1..j : Opens(i) /\ (i = j \/ Meets(i, j))})

\* the input clusters that open an output cluster, in input order
Openers ==
    SelectSeq([i \in 1..Len(cl_input[1].clusters) |-> i], Opens)

\* the members of the input clusters owned by a, in input order
RECURSIVE OwnedItems(_, _)
OwnedItems(a, j) ==
    IF j > Len(cl_input[1].clusters) THEN << >>
    ELSE (IF Owner(j) = a THEN cl_input[1].clusters[j].item_indices
          ELSE << >>) \o OwnedItems(a, j + 1)

RECURSIVE Concat(_)
Concat(seqs) == IF seqs = << >> THEN << >> ELSE Head(seqs) \o Concat(Tail(seqs))

\* C29: merge_clusters is greedy in input order: an input cluster not merged
\* yet opens an output cluster and takes every later cluster, not merged yet,
\* whose centroid is similar to its own; every input member is in the output
\* once; with 0 or 1 input clusters the input is returned
C29_GreedyMerge ==
    cl_result /= None =>
        LET clusters == cl_input[1].clusters
            merged == cl_result[1]
        IN IF Len(clusters) <= 1 THEN merged = clusters
           ELSE /\ Len(merged) = Len(Openers)
                /\ \A k \in 1..Len(merged) :
                       /\ merged[k].id = k - 1
                       /\ merged[k].item_indices = OwnedItems(Openers[k], 1)
                /\ LET outputs == Concat([k \in 1..Len(merged) |->
                                             merged[k].item_indices])
                       inputs == Concat([j \in 1..Len(clusters) |->
                                            clusters[j].item_indices])
                   IN /\ Len(outputs) = Len(inputs)
                      /\ Range(outputs) = Range(inputs)
                      /\ Cardinality(Range(outputs)) = Len(outputs)

\* three input clusters: the first takes the second, whose centroid is also
\* similar to the third's, and the third stays on its own
C29_Witness ==
    /\ cl_result /= None
    /\ Len(cl_input[1].clusters) = 3
    /\ Meets(1, 2)
    /\ Meets(2, 3)
    /\ ~Meets(1, 3)
    /\ Len(cl_result[1]) = 2
    /\ cl_result[1][1].item_indices
           = cl_input[1].clusters[1].item_indices
                 \o cl_input[1].clusters[2].item_indices

(***************************************************************************)
(* The scope of the novelty and cluster stages (specification SpecOps)     *)
(***************************************************************************)
\* the ids of the stored ProcessedItem rows
StoredIds == {p.id : p \in processed_items}

=========================================================================
